---- MODULE Spec2Model ----
(***************************************************************************)
(* GoBuild pipeline: API gateway -> build-requests -> Build Orchestrator   *)
(* -> build-jobs -> Builder -> build-status / build-completions -> Build   *)
(* Orchestrator, with Redis as the state store and the Storage service as  *)
(* the artifact store.                                                     *)
(*                                                                         *)
(* Go structs are records with the Go field names; what travels on Kafka   *)
(* and what is stored in Redis is the JSON object json.Marshal produces: a *)
(* function from the JSON keys that are present to their values.  A        *)
(* *time.Time is <<>> (nil) or <<t>>; the zero time.Time is ZeroTime.      *)
(***************************************************************************)
EXTENDS Integers, Sequences, FiniteSets, TLC

\* ----------------------------------------------------------------- bounds
\* wall-clock seconds the model distinguishes: time.Now() is in 1..MaxTime
MaxTime == 2
\* Kafka at-least-once: how many times a committed offset is rewound
MaxRedeliver == 1
\* how many infrastructure errors (Redis command, Produce call) may occur
MaxFaults == 1

\* ------------------------------------------------------------- inputs
BuildIds == {"b1"}
RepositoryURL == "https://example.com/repo"
Branch == "dev"
ZeroTime == 0
StorageURL == "http://storage:8084"

\* -------------------------------------------------------------- state
VARIABLES
    now,          \* the wall clock read by time.Now()
    topics,       \* Kafka: topic name -> log of [key, value] messages
    redis,        \* Redis strings: key -> stored JSON object
    zset,         \* Redis sorted set builds:by_date: member -> score
    orchOffset,   \* consumer group build-orchestrator: topic -> position
    orchPc,       \* where ProcessBuildRequest stands inside the handler
    orchLocal,    \* its locals buildReq and buildStatus while it runs
    orchResult,   \* what the last handler call returned to ConsumeMessages
    jobOffset,    \* consumer group builder: position in build-jobs
    bpc,          \* Builder: where ProcessBuildJob stands
    bjob,         \* Builder: the buildReq being processed
    berr,         \* Builder: the error message handed to failBuild
    bResult,      \* Builder: what the last ProcessBuildJob returned
    workDirs,     \* Builder: the build directories present under workDir
    artifacts,    \* Storage: file name -> content under artifactsDir
    uploads,      \* number of archives the Builder has produced so far
    redelivered,  \* offset rewinds so far
    faults,       \* infrastructure errors so far
    conns,        \* Notification: websocket connection -> its state
    clients,      \* Notification: ns.clients, clientID -> connection
    frames,       \* Notification: connection -> frames written to it
    notifOffset,  \* consumer group notification: topic -> position
    buildFiles,   \* executeBuild: the files at the top of buildDir
    execPc,       \* executeBuild: the function it stands in
    projectType,  \* executeBuild: what detectProjectType returned
    packageManager, \* buildNodeProject: the package manager it chose
    execCalls,    \* executeBuild: the functions called so far
    execCmds,     \* executeBuild: the commands run so far
    execErr,      \* executeBuild: the error it returned
    mainPc,       \* a service's main: Subscribe, ConsumeMessages or exit
    subPc,        \* Subscribe: the statement it stands at
    subI,         \* Subscribe: the loop variable i
    subErr,       \* Subscribe: err, "" being nil
    retryDelay,   \* Subscribe: retryDelay, in milliseconds
    subCalls,     \* number of SubscribeTopics calls so far
    subSleeps,    \* number of time.Sleep calls so far
    run,          \* ConsumeMessages: its loop variable run
    polled,       \* ConsumeMessages: events Poll has returned so far
    getResp,      \* Orchestrator: the last response of GET /api/builds/{id}
    postResp,     \* gateway: the last response of POST /api/builds
    storeResp,    \* Storage: the last GET /artifacts/{id} and its response
    logs,         \* Redis lists logs:<id>: build id -> entries
    dashOffset    \* consumer group status-dashboard-api: topic -> position

vars == <<now, topics, redis, zset, orchOffset, orchPc, orchLocal, orchResult,
          jobOffset, bpc, bjob, berr, bResult, workDirs, artifacts, uploads,
          redelivered, faults, conns, clients, frames, notifOffset,
          buildFiles, execPc, projectType, packageManager, execCalls,
          execCmds, execErr, mainPc, subPc, subI, subErr, retryDelay,
          subCalls, subSleeps, run, polled, getResp, postResp, storeResp,
          logs, dashOffset>>

builderVars == <<bpc, bjob, berr, bResult, workDirs>>
orchVars == <<orchOffset, orchPc, orchLocal, orchResult>>
notifVars == <<conns, clients, frames, notifOffset>>
execVars == <<buildFiles, execPc, projectType, packageManager, execCalls,
              execCmds, execErr>>
consumerVars == <<mainPc, subPc, subI, subErr, retryDelay, subCalls,
                  subSleeps, run, polled>>
httpVars == <<getResp, postResp, storeResp>>
dashVars == <<logs, dashOffset>>
serviceVars == <<consumerVars, httpVars, dashVars>>
pipelineVars == <<now, topics, redis, zset, orchVars, jobOffset, builderVars,
                  artifacts, uploads, redelivered, faults>>

Workers == {"w1"}

TopicNames == {"build-requests", "build-status", "build-logs",
               "build-completions", "build-jobs"}
OrchTopics == {"build-requests", "build-status", "build-completions"}

\* ------------------------------------------------------- JSON encoding
\* the value of a key of a JSON object, or the Go zero value when absent
Field(json, k, zero) == IF k \in DOMAIN json THEN json[k] ELSE zero

\* json.Marshal keeps a key unless it is omitempty and holds the zero value
Keep(full, omitted) == [k \in (DOMAIN full) \ omitted |-> full[k]]

\* a payload json.Unmarshal returns an error for, and UnmarshalMessage
\* succeeding on a payload
NotJSON == [undecodable |-> TRUE]
IsJSON(value) == "undecodable" \notin DOMAIN value

MarshalBuildRequestMessage(m) ==
    [id |-> m.ID, repository_url |-> m.RepositoryURL, branch |-> m.Branch,
     commit_hash |-> m.CommitHash, user_id |-> m.UserID,
     created_at |-> m.CreatedAt]

UnmarshalBuildRequestMessage(json) ==
    [ID |-> Field(json, "id", ""),
     RepositoryURL |-> Field(json, "repository_url", ""),
     Branch |-> Field(json, "branch", ""),
     CommitHash |-> Field(json, "commit_hash", ""),
     UserID |-> Field(json, "user_id", ""),
     CreatedAt |-> Field(json, "created_at", ZeroTime)]

MarshalBuildStatusMessage(m) ==
    [build_id |-> m.BuildID, status |-> m.Status, message |-> m.Message,
     updated_at |-> m.UpdatedAt]

UnmarshalBuildStatusMessage(json) ==
    [BuildID |-> Field(json, "build_id", ""),
     Status |-> Field(json, "status", ""),
     Message |-> Field(json, "message", ""),
     UpdatedAt |-> Field(json, "updated_at", ZeroTime)]

MarshalBuildLogMessage(m) ==
    [build_id |-> m.BuildID, log_entry |-> m.LogEntry,
     timestamp |-> m.Timestamp]

UnmarshalBuildLogMessage(json) ==
    [BuildID |-> Field(json, "build_id", ""),
     LogEntry |-> Field(json, "log_entry", ""),
     Timestamp |-> Field(json, "timestamp", ZeroTime)]

MarshalBuildCompletionMessage(m) ==
    Keep([build_id |-> m.BuildID, status |-> m.Status,
          artifact_url |-> m.ArtifactURL, duration |-> m.Duration,
          completed_at |-> m.CompletedAt],
         IF m.ArtifactURL = "" THEN {"artifact_url"} ELSE {})

UnmarshalBuildCompletionMessage(json) ==
    [BuildID |-> Field(json, "build_id", ""),
     Status |-> Field(json, "status", ""),
     ArtifactURL |-> Field(json, "artifact_url", ""),
     Duration |-> Field(json, "duration", 0),
     CompletedAt |-> Field(json, "completed_at", ZeroTime)]

\* model.BuildStatus, the record the Orchestrator keeps under build:<id>
MarshalBuildStatus(s) ==
    Keep([id |-> s.ID, repository_url |-> s.RepositoryURL,
          branch |-> s.Branch, commit_hash |-> s.CommitHash,
          user_id |-> s.UserID, status |-> s.Status, message |-> s.Message,
          artifact_url |-> s.ArtifactURL, created_at |-> s.CreatedAt,
          updated_at |-> s.UpdatedAt, started_at |-> s.StartedAt,
          completed_at |-> s.CompletedAt, duration |-> s.Duration],
         (IF s.Branch = "" THEN {"branch"} ELSE {}) \cup
         (IF s.CommitHash = "" THEN {"commit_hash"} ELSE {}) \cup
         (IF s.Message = "" THEN {"message"} ELSE {}) \cup
         (IF s.ArtifactURL = "" THEN {"artifact_url"} ELSE {}) \cup
         (IF s.StartedAt = <<>> THEN {"started_at"} ELSE {}) \cup
         (IF s.CompletedAt = <<>> THEN {"completed_at"} ELSE {}) \cup
         (IF s.Duration = 0 THEN {"duration"} ELSE {}))

UnmarshalBuildStatus(json) ==
    [ID |-> Field(json, "id", ""),
     RepositoryURL |-> Field(json, "repository_url", ""),
     Branch |-> Field(json, "branch", ""),
     CommitHash |-> Field(json, "commit_hash", ""),
     UserID |-> Field(json, "user_id", ""),
     Status |-> Field(json, "status", ""),
     Message |-> Field(json, "message", ""),
     ArtifactURL |-> Field(json, "artifact_url", ""),
     CreatedAt |-> Field(json, "created_at", ZeroTime),
     UpdatedAt |-> Field(json, "updated_at", ZeroTime),
     StartedAt |-> Field(json, "started_at", <<>>),
     CompletedAt |-> Field(json, "completed_at", <<>>),
     Duration |-> Field(json, "duration", 0)]

\* --------------------------------------------------------------- Kafka
\* a SendMessage that produces without the key
SendMessageUnkeyed(tp, topic, key, json) ==
    [tp EXCEPT ![topic] = Append(@, [key |-> "", value |-> json])]

\* Producer.SendMessage: the JSON value is appended to the topic's log
\* under the given partition key
SendMessage(tp, topic, key, json) ==
    [tp EXCEPT ![topic] = Append(@, [key |-> key, value |-> json])]

\* an infrastructure call (a Redis command, a Produce call) of the running
\* handler fails at one of the given points, or nowhere
Charge(failAt) ==
    /\ failAt # "none" => faults < MaxFaults
    /\ faults' = faults + (IF failAt = "none" THEN 0 ELSE 1)

\* ------------------------------------------------------------- gateway
\* an Authorization header is the sequence of its words, strings.Split on
\* " "; the header that is absent or empty splits into one empty word
NoHeader == <<"">>
ValidHeader == <<"Bearer", "t1">>
AuthHeaders == {NoHeader, <<"Bearer">>, <<"Basic", "t1">>, <<"Bearer", "t0">>,
                <<"Bearer", "t1", "x">>, ValidHeader}

\* ValidateToken: the tokens signed with the secret and not expired, and
\* the claims of one
ValidateToken(tokenString) == tokenString \in {"t1"}
UserClaims(tokenString) == [ID |-> "u1"]

\* AuthMiddleware on a path that is not exempt: the 401 body it writes, or
\* "next" when it hands the request with the claims to the handler
AuthMiddleware(authHeader) ==
    IF authHeader = NoHeader THEN "Authorization header is required"
    ELSE IF Len(authHeader) # 2 \/ authHeader[1] # "Bearer"
    THEN "Invalid authorization format"
    ELSE IF ~ValidateToken(authHeader[2]) THEN "Invalid token"
    ELSE "next"

\* the request bodies: not JSON, {}, an empty repository_url, a full one
\* json.Decoder.Decode into the gateway's BuildRequest
DecodeBuildRequest(body) ==
    [RepositoryURL |-> Field(body, "repository_url", ""),
     Branch |-> Field(body, "branch", ""),
     CommitHash |-> Field(body, "commit_hash", "")]

ValidBody == [repository_url |-> RepositoryURL, branch |-> Branch]
Bodies == {NotJSON, <<>>, [repository_url |-> "", branch |-> Branch],
           ValidBody}

\* http.Error, and the state in which no request has been answered yet
HTTPError(code, text) == [code |-> code, body |-> [error |-> text]]
NoResponse == HTTPError(0, "")

\* what POST /api/builds answers before it draws a uuid, code 0 when the
\* request passes the middleware and the handler's checks
Rejection(authHeader, body) ==
    IF AuthMiddleware(authHeader) # "next"
    THEN HTTPError(401, AuthMiddleware(authHeader))
    ELSE IF ~IsJSON(body) THEN HTTPError(400, "Invalid request body")
    ELSE IF DecodeBuildRequest(body).RepositoryURL = ""
    THEN HTTPError(400, "Repository URL is required")
    ELSE NoResponse

\* the handler without its check of the repository URL
PostBuildsWithoutURLCheck(authHeader, body, b, f) ==
    /\ IF AuthMiddleware(authHeader) # "next" \/ ~IsJSON(body)
       THEN /\ f = "none"
            /\ postResp' = Rejection(authHeader, body)
            /\ UNCHANGED <<topics, faults>>
       ELSE /\ \A i \in DOMAIN topics["build-requests"] :
                  topics["build-requests"][i].key # b
            /\ Charge(f)
            /\ LET buildReq == DecodeBuildRequest(body)
                   buildMsg == [ID |-> b,
                                RepositoryURL |-> buildReq.RepositoryURL,
                                Branch |-> buildReq.Branch,
                                CommitHash |-> buildReq.CommitHash,
                                UserID |-> UserClaims(authHeader[2]).ID,
                                CreatedAt |-> now]
               IN IF f = "send"
                  THEN /\ postResp' =
                            HTTPError(500, "Failed to process build request")
                       /\ UNCHANGED topics
                  ELSE /\ topics' =
                            SendMessage(topics, "build-requests", b,
                                        MarshalBuildRequestMessage(buildMsg))
                       /\ postResp' = [code |-> 200, body |-> [build_id |-> b]]
    /\ UNCHANGED <<now, redis, zset, orchOffset, orchPc, orchLocal,
                   orchResult, jobOffset, builderVars,
                   artifacts, uploads, redelivered>>
    /\ UNCHANGED notifVars
    /\ UNCHANGED execVars
    /\ UNCHANGED <<consumerVars, getResp, storeResp, dashVars>>

\* POST /api/builds behind AuthMiddleware: a fresh uuid and one
\* BuildRequestMessage on build-requests, or an error response
PostBuilds(authHeader, body, b, f) ==
    /\ IF Rejection(authHeader, body) # NoResponse
       THEN /\ f = "none"
            /\ postResp' = Rejection(authHeader, body)
            /\ UNCHANGED <<topics, faults>>
       ELSE /\ \A i \in DOMAIN topics["build-requests"] :
                  topics["build-requests"][i].key # b
            /\ Charge(f)
            /\ LET buildReq == DecodeBuildRequest(body)
                   buildMsg == [ID |-> b,
                                RepositoryURL |-> buildReq.RepositoryURL,
                                Branch |-> buildReq.Branch,
                                CommitHash |-> buildReq.CommitHash,
                                UserID |-> UserClaims(authHeader[2]).ID,
                                CreatedAt |-> now]
               IN IF f = "send"
                  THEN /\ postResp' =
                            HTTPError(500, "Failed to process build request")
                       /\ UNCHANGED topics
                  ELSE /\ topics' =
                            SendMessage(topics, "build-requests", b,
                                        MarshalBuildRequestMessage(buildMsg))
                       /\ postResp' = [code |-> 200, body |-> [build_id |-> b]]
    /\ UNCHANGED <<now, redis, zset, orchOffset, orchPc, orchLocal,
                   orchResult, jobOffset, builderVars,
                   artifacts, uploads, redelivered>>
    /\ UNCHANGED notifVars
    /\ UNCHANGED execVars
    /\ UNCHANGED <<consumerVars, getResp, storeResp, dashVars>>

\* a submission the gateway accepts and publishes
SubmitBuild(b) == PostBuilds(ValidHeader, ValidBody, b, "none")

\* ------------------------------------------------------- Orchestrator
RecordKey(buildID) == "build:" \o buildID

\* storeBuildStatus: SET build:<id> in one transaction with the ZADD
storeBuildStatus(r, buildStatus) ==
    (RecordKey(buildStatus.ID) :> MarshalBuildStatus(buildStatus)) @@ r

storeBuildStatusZAdd(z, buildStatus) ==
    (buildStatus.ID :> buildStatus.CreatedAt) @@ z

\* getBuildStatus: redis.Nil when the key is missing
HasBuildStatus(r, buildID) == RecordKey(buildID) \in DOMAIN r
getBuildStatus(r, buildID) == UnmarshalBuildStatus(r[RecordKey(buildID)])

\* GET /api/builds/{buildId} of the Orchestrator: GetBuildJob, and 404 with
\* the error's text on any error of it, the Redis GET failing included;
\* otherwise the decoded record encoded again
LookupIds == BuildIds \cup {"status:" \o b : b \in BuildIds}

GetBuildJob(buildID, f) ==
    /\ Charge(f)
    /\ getResp' =
          IF f = "get" THEN HTTPError(404, "dial tcp: connection refused")
          ELSE IF ~HasBuildStatus(redis, buildID)
          THEN HTTPError(404, "build not found: " \o buildID)
          ELSE [code |-> 200,
                body |-> MarshalBuildStatus(getBuildStatus(redis, buildID))]
    /\ UNCHANGED <<now, topics, redis, zset, orchVars, jobOffset,
                   builderVars, artifacts, uploads, redelivered>>
    /\ UNCHANGED <<notifVars, execVars, consumerVars, postResp, storeResp,
                   dashVars>>

\* the handler main passes to ConsumeMessages tries the three message
\* types in this order on every message of every subscribed topic
Dispatch(value) ==
    IF ~IsJSON(value) THEN "unknown"
    ELSE IF UnmarshalBuildRequestMessage(value).ID # "" THEN "request"
    ELSE IF /\ UnmarshalBuildCompletionMessage(value).BuildID # ""
            /\ UnmarshalBuildCompletionMessage(value).ArtifactURL # ""
         THEN "completion"
    ELSE IF UnmarshalBuildStatusMessage(value).BuildID # "" THEN "status"
    ELSE "unknown"

OrchHasNext(t) == orchOffset[t] < Len(topics[t])
OrchNext(t) == topics[t][orchOffset[t] + 1].value
OrchAdvance(t) == orchOffset' = [orchOffset EXCEPT ![t] = @ + 1]

\* ProcessBuildRequest, lines 38-48: the fresh record
NewBuildStatus(buildReq, t) ==
    [ID |-> buildReq.ID, RepositoryURL |-> buildReq.RepositoryURL,
     Branch |-> buildReq.Branch, CommitHash |-> buildReq.CommitHash,
     UserID |-> buildReq.UserID, Status |-> "queued",
     Message |-> "Build queued for processing", ArtifactURL |-> "",
     CreatedAt |-> buildReq.CreatedAt, UpdatedAt |-> t,
     StartedAt |-> <<>>, CompletedAt |-> <<>>, Duration |-> 0]

\* ProcessBuildRequest with the error of storeBuildStatus dropped: the call
\* goes on to publish although nothing was written
ProcessBuildRequestStoreErrorDropped(t, failAt) ==
    /\ orchPc = "idle"
    /\ OrchHasNext(t)
    /\ Dispatch(OrchNext(t)) = "request"
    /\ OrchAdvance(t)
    /\ Charge(failAt)
    /\ LET buildReq == UnmarshalBuildRequestMessage(OrchNext(t))
           buildStatus == NewBuildStatus(buildReq, now)
       IN /\ IF failAt = "store"
             THEN UNCHANGED <<redis, zset>>
             ELSE /\ redis' = storeBuildStatus(redis, buildStatus)
                  /\ zset' = storeBuildStatusZAdd(zset, buildStatus)
          /\ orchPc' = "sendStatus"
          /\ orchLocal' = [buildReq |-> buildReq,
                           buildStatus |-> buildStatus]
          /\ orchResult' = "none"
    /\ UNCHANGED <<now, topics, jobOffset, builderVars,
                   artifacts, uploads, redelivered>>
    /\ UNCHANGED notifVars
    /\ UNCHANGED execVars
    /\ UNCHANGED serviceVars

\* ProcessBuildRequest up to the store: the record is written, or the
\* call returns the store's error
ProcessBuildRequestStore(t, failAt) ==
    /\ orchPc = "idle"
    /\ OrchHasNext(t)
    /\ Dispatch(OrchNext(t)) = "request"
    /\ OrchAdvance(t)
    /\ Charge(failAt)
    /\ LET buildReq == UnmarshalBuildRequestMessage(OrchNext(t))
           buildStatus == NewBuildStatus(buildReq, now)
       IN IF failAt = "store"
          THEN /\ orchResult' = "err"
               /\ UNCHANGED <<redis, zset, orchPc, orchLocal>>
          ELSE /\ redis' = storeBuildStatus(redis, buildStatus)
               /\ zset' = storeBuildStatusZAdd(zset, buildStatus)
               /\ orchPc' = "sendStatus"
               /\ orchLocal' = [buildReq |-> buildReq,
                                buildStatus |-> buildStatus]
               /\ orchResult' = "none"
    /\ UNCHANGED <<now, topics, jobOffset, builderVars,
                   artifacts, uploads, redelivered>>
    /\ UNCHANGED notifVars
    /\ UNCHANGED execVars
    /\ UNCHANGED serviceVars

\* ProcessBuildRequest with the two sends swapped: the request goes to
\* build-jobs where the queued status should go to build-status
ProcessBuildRequestSendJobFirst(failAt) ==
    /\ orchPc = "sendStatus"
    /\ Charge(failAt)
    /\ LET buildReq == orchLocal.buildReq
       IN IF failAt = "send"
          THEN /\ orchPc' = "idle"
               /\ orchLocal' = <<>>
               /\ orchResult' = "err"
               /\ UNCHANGED topics
          ELSE /\ topics' = SendMessage(topics, "build-jobs", buildReq.ID,
                              MarshalBuildRequestMessage(buildReq))
               /\ orchPc' = "sendJob"
               /\ UNCHANGED <<orchLocal, orchResult>>
    /\ UNCHANGED <<now, redis, zset, orchOffset, jobOffset, builderVars,
                   artifacts, uploads, redelivered>>
    /\ UNCHANGED notifVars
    /\ UNCHANGED execVars
    /\ UNCHANGED serviceVars

\* ProcessBuildRequest, lines 56-66: the queued status on build-status
ProcessBuildRequestSendStatus(failAt) ==
    /\ orchPc = "sendStatus"
    /\ Charge(failAt)
    /\ LET buildStatus == orchLocal.buildStatus
           statusMsg == [BuildID |-> buildStatus.ID,
                         Status |-> buildStatus.Status,
                         Message |-> buildStatus.Message,
                         UpdatedAt |-> buildStatus.UpdatedAt]
       IN IF failAt = "send"
          THEN /\ orchPc' = "idle"
               /\ orchLocal' = <<>>
               /\ orchResult' = "err"
               /\ UNCHANGED topics
          ELSE /\ topics' = SendMessage(topics, "build-status",
                              buildStatus.ID,
                              MarshalBuildStatusMessage(statusMsg))
               /\ orchPc' = "sendJob"
               /\ UNCHANGED <<orchLocal, orchResult>>
    /\ UNCHANGED <<now, redis, zset, orchOffset, jobOffset, builderVars,
                   artifacts, uploads, redelivered>>
    /\ UNCHANGED notifVars
    /\ UNCHANGED execVars
    /\ UNCHANGED serviceVars

\* ProcessBuildRequest with the send to build-jobs tried again after its
\* error: the second try goes through and the call reports success
ProcessBuildRequestSendJobRetried(failAt) ==
    /\ orchPc = "sendJob"
    /\ Charge(failAt)
    /\ LET buildReq == orchLocal.buildReq
       IN /\ topics' = SendMessage(topics, "build-jobs", buildReq.ID,
                           MarshalBuildRequestMessage(buildReq))
          /\ orchResult' = "ok"
    /\ orchPc' = "idle"
    /\ orchLocal' = <<>>
    /\ UNCHANGED <<now, redis, zset, orchOffset, jobOffset, builderVars,
                   artifacts, uploads, redelivered>>
    /\ UNCHANGED notifVars
    /\ UNCHANGED execVars
    /\ UNCHANGED serviceVars

\* ProcessBuildRequest, lines 68-75: the request forwarded on build-jobs
ProcessBuildRequestSendJob(failAt) ==
    /\ orchPc = "sendJob"
    /\ Charge(failAt)
    /\ LET buildReq == orchLocal.buildReq
       IN IF failAt = "send"
          THEN /\ orchResult' = "err"
               /\ UNCHANGED topics
          ELSE /\ topics' = SendMessage(topics, "build-jobs", buildReq.ID,
                              MarshalBuildRequestMessage(buildReq))
               /\ orchResult' = "ok"
    /\ orchPc' = "idle"
    /\ orchLocal' = <<>>
    /\ UNCHANGED <<now, redis, zset, orchOffset, jobOffset, builderVars,
                   artifacts, uploads, redelivered>>
    /\ UNCHANGED notifVars
    /\ UNCHANGED execVars
    /\ UNCHANGED serviceVars

\* ProcessBuildStatus, lines 89-98: the fields a status message overwrites
ApplyBuildStatus(buildStatus, statusMsg, t) ==
    [buildStatus EXCEPT
        !.Status = statusMsg.Status,
        !.Message = statusMsg.Message,
        !.UpdatedAt = statusMsg.UpdatedAt,
        !.StartedAt = IF statusMsg.Status = "in-progress" /\ @ = <<>>
                      THEN <<t>> ELSE @]

\* a status handler that puts a failed build back on build-jobs
ProcessBuildStatusRequeue(t) ==
    /\ orchPc = "idle"
    /\ OrchHasNext(t)
    /\ Dispatch(OrchNext(t)) = "status"
    /\ OrchAdvance(t)
    /\ LET statusMsg == UnmarshalBuildStatusMessage(OrchNext(t))
           jobs == {i \in DOMAIN topics["build-jobs"] :
                       topics["build-jobs"][i].key = statusMsg.BuildID}
       IN IF ~HasBuildStatus(redis, statusMsg.BuildID)
          THEN orchResult' = "err" /\ UNCHANGED <<redis, topics>>
          ELSE /\ redis' = storeBuildStatus(redis,
                              ApplyBuildStatus(
                                  getBuildStatus(redis, statusMsg.BuildID),
                                  statusMsg, now))
               /\ topics' =
                    IF statusMsg.Status \in {"failed", "failure"}
                       /\ jobs # {}
                    THEN SendMessage(topics, "build-jobs", statusMsg.BuildID,
                             topics["build-jobs"][
                                 CHOOSE i \in jobs : TRUE].value)
                    ELSE topics
               /\ orchResult' = "ok"
    /\ UNCHANGED <<now, zset, orchPc, orchLocal, jobOffset,
                   builderVars, artifacts, uploads, redelivered, faults>>
    /\ UNCHANGED notifVars
    /\ UNCHANGED execVars
    /\ UNCHANGED serviceVars

ProcessBuildStatus(t) ==
    /\ orchPc = "idle"
    /\ OrchHasNext(t)
    /\ Dispatch(OrchNext(t)) = "status"
    /\ OrchAdvance(t)
    /\ LET statusMsg == UnmarshalBuildStatusMessage(OrchNext(t))
       IN IF ~HasBuildStatus(redis, statusMsg.BuildID)
          THEN orchResult' = "err" /\ UNCHANGED redis
          ELSE /\ redis' = storeBuildStatus(redis,
                              ApplyBuildStatus(
                                  getBuildStatus(redis, statusMsg.BuildID),
                                  statusMsg, now))
               /\ orchResult' = "ok"
    /\ UNCHANGED <<now, topics, zset, orchPc, orchLocal, jobOffset,
                   builderVars, artifacts, uploads, redelivered, faults>>
    /\ UNCHANGED notifVars
    /\ UNCHANGED execVars
    /\ UNCHANGED serviceVars

\* a ProcessBuildCompletion that leaves the artifact URL alone
ApplyBuildCompletionWithoutArtifact(buildStatus, completionMsg) ==
    [buildStatus EXCEPT
        !.Status = completionMsg.Status,
        !.UpdatedAt = completionMsg.CompletedAt,
        !.CompletedAt = <<completionMsg.CompletedAt>>,
        !.Duration = completionMsg.Duration]

\* ProcessBuildCompletion, lines 120-124
ApplyBuildCompletion(buildStatus, completionMsg) ==
    [buildStatus EXCEPT
        !.Status = completionMsg.Status,
        !.ArtifactURL = completionMsg.ArtifactURL,
        !.UpdatedAt = completionMsg.CompletedAt,
        !.CompletedAt = <<completionMsg.CompletedAt>>,
        !.Duration = completionMsg.Duration]

\* ProcessBuildCompletion, lines 132-137: the status it publishes itself
CompletionStatusUpdate(completionMsg) ==
    [BuildID |-> completionMsg.BuildID, Status |-> completionMsg.Status,
     Message |-> "Build " \o completionMsg.Status,
     UpdatedAt |-> completionMsg.CompletedAt]

ProcessBuildCompletion(t, failAt) ==
    /\ orchPc = "idle"
    /\ OrchHasNext(t)
    /\ Dispatch(OrchNext(t)) = "completion"
    /\ OrchAdvance(t)
    /\ LET completionMsg == UnmarshalBuildCompletionMessage(OrchNext(t))
       IN IF ~HasBuildStatus(redis, completionMsg.BuildID)
          THEN /\ failAt = "none"
               /\ orchResult' = "err"
               /\ UNCHANGED <<redis, topics, faults>>
          ELSE /\ redis' = storeBuildStatus(redis,
                              ApplyBuildCompletion(
                                  getBuildStatus(redis, completionMsg.BuildID),
                                  completionMsg))
               /\ Charge(failAt)
               /\ IF failAt = "send"
                  THEN orchResult' = "err" /\ UNCHANGED topics
                  ELSE /\ topics' = SendMessage(topics, "build-status",
                                      completionMsg.BuildID,
                                      MarshalBuildStatusMessage(
                                          CompletionStatusUpdate(completionMsg)))
                       /\ orchResult' = "ok"
    /\ UNCHANGED <<now, zset, orchPc, orchLocal, jobOffset, builderVars,
                   artifacts, uploads, redelivered>>
    /\ UNCHANGED notifVars
    /\ UNCHANGED execVars
    /\ UNCHANGED serviceVars

\* ProcessBuildStatus and ProcessBuildCompletion statement by statement:
\* the read of the record (lines 83-87, 114-118) and, as a step of its
\* own, the update of the copy with the store (lines 89-104, 120-139)
ProgressMessage(value) ==
    IF Dispatch(value) = "completion"
    THEN UnmarshalBuildCompletionMessage(value)
    ELSE UnmarshalBuildStatusMessage(value)

\* a handler started for a message while the handler of the message
\* before has read the record and not yet stored it
ProcessProgressGetConcurrent(t) ==
    /\ orchPc \in {"idle", "store"}
    /\ OrchHasNext(t)
    /\ Dispatch(OrchNext(t)) \in {"status", "completion"}
    /\ OrchAdvance(t)
    /\ LET msg == ProgressMessage(OrchNext(t))
       IN IF ~HasBuildStatus(redis, msg.BuildID)
          THEN orchResult' = "err" /\ UNCHANGED <<redis, orchPc, orchLocal>>
          ELSE IF orchPc = "store"
          THEN /\ redis' = storeBuildStatus(redis,
                              IF Dispatch(OrchNext(t)) = "completion"
                              THEN ApplyBuildCompletion(
                                       getBuildStatus(redis, msg.BuildID), msg)
                              ELSE ApplyBuildStatus(
                                       getBuildStatus(redis, msg.BuildID),
                                       msg, now))
               /\ UNCHANGED <<orchPc, orchLocal, orchResult>>
          ELSE /\ orchPc' = "store"
               /\ orchLocal' = [kind |-> Dispatch(OrchNext(t)), msg |-> msg,
                                buildStatus |->
                                    getBuildStatus(redis, msg.BuildID)]
               /\ orchResult' = "none"
               /\ UNCHANGED redis
    /\ UNCHANGED <<now, topics, zset, jobOffset, builderVars, artifacts,
                   uploads, redelivered, faults>>
    /\ UNCHANGED <<notifVars, execVars, serviceVars>>

\* getBuildStatus at the head of the two handlers
ProcessProgressGet(t) ==
    /\ orchPc = "idle"
    /\ OrchHasNext(t)
    /\ Dispatch(OrchNext(t)) \in {"status", "completion"}
    /\ OrchAdvance(t)
    /\ LET msg == ProgressMessage(OrchNext(t))
       IN IF ~HasBuildStatus(redis, msg.BuildID)
          THEN orchResult' = "err" /\ UNCHANGED <<orchPc, orchLocal>>
          ELSE /\ orchPc' = "store"
               /\ orchLocal' = [kind |-> Dispatch(OrchNext(t)), msg |-> msg,
                                buildStatus |->
                                    getBuildStatus(redis, msg.BuildID)]
               /\ orchResult' = "none"
    /\ UNCHANGED <<now, topics, redis, zset, jobOffset, builderVars,
                   artifacts, uploads, redelivered, faults>>
    /\ UNCHANGED <<notifVars, execVars, serviceVars>>

\* the copy updated and stored; ProcessBuildCompletion then publishes
ProcessProgressStore(failAt) ==
    /\ orchPc = "store"
    /\ IF orchLocal.kind = "completion"
       THEN /\ redis' = storeBuildStatus(redis,
                             ApplyBuildCompletion(orchLocal.buildStatus,
                                                  orchLocal.msg))
            /\ Charge(failAt)
            /\ IF failAt = "send"
               THEN orchResult' = "err" /\ UNCHANGED topics
               ELSE /\ topics' = SendMessage(topics, "build-status",
                                   orchLocal.msg.BuildID,
                                   MarshalBuildStatusMessage(
                                       CompletionStatusUpdate(orchLocal.msg)))
                    /\ orchResult' = "ok"
       ELSE /\ failAt = "none"
            /\ redis' = storeBuildStatus(redis,
                             ApplyBuildStatus(orchLocal.buildStatus,
                                              orchLocal.msg, now))
            /\ orchResult' = "ok"
            /\ UNCHANGED <<topics, faults>>
    /\ orchPc' = "idle"
    /\ orchLocal' = <<>>
    /\ UNCHANGED <<now, zset, orchOffset, jobOffset, builderVars, artifacts,
                   uploads, redelivered>>
    /\ UNCHANGED <<notifVars, execVars, serviceVars>>

\* the handler, lines 261-262: no message type fits, the message is
\* logged as unknown and the handler returns nil
ProcessUnknown(t) ==
    /\ orchPc = "idle"
    /\ OrchHasNext(t)
    /\ Dispatch(OrchNext(t)) = "unknown"
    /\ OrchAdvance(t)
    /\ orchResult' = "ok"
    /\ UNCHANGED <<now, topics, redis, zset, orchPc, orchLocal, jobOffset,
                   builderVars, artifacts, uploads, redelivered, faults>>
    /\ UNCHANGED <<notifVars, execVars, serviceVars>>

\* some other producer puts a payload that is no event on a topic
MaxForeign == 1
ForeignPayloads == {NotJSON, <<>>}
ForeignCount ==
    Cardinality(UNION {{<<t, i>> : i \in {j \in DOMAIN topics[t] :
                           topics[t][j].value \in ForeignPayloads}} :
                       t \in TopicNames})

PublishForeign(t, payload) ==
    /\ ForeignCount < MaxForeign
    /\ topics' = SendMessage(topics, t, "", payload)
    /\ UNCHANGED <<now, redis, zset, orchVars, jobOffset, builderVars,
                   artifacts, uploads, redelivered, faults>>
    /\ UNCHANGED <<notifVars, execVars, serviceVars>>

\* at-least-once delivery: the group's committed offset of a topic lies
\* one message behind what the handler has processed, and the message is
\* delivered again
OrchRedeliver(t) ==
    /\ orchPc = "idle"
    /\ orchOffset[t] > 0
    /\ redelivered < MaxRedeliver
    /\ redelivered' = redelivered + 1
    /\ orchOffset' = [orchOffset EXCEPT ![t] = @ - 1]
    /\ UNCHANGED <<now, topics, redis, zset, orchPc, orchLocal, orchResult,
                   jobOffset, builderVars, artifacts, uploads,
                   faults>>
    /\ UNCHANGED notifVars
    /\ UNCHANGED execVars
    /\ UNCHANGED serviceVars

\* ------------------------------------------------------------- Storage
\* UploadArtifact: the archive is written to <buildId>-<timestamp>.tar.gz,
\* the timestamp having a resolution of one second; os.Create truncates a
\* file of that name
ArtifactName(buildID, t) == <<buildID, t>>

UploadArtifact(files, buildID, t, content) ==
    (ArtifactName(buildID, t) :> content) @@ files

\* ---------------------------------------------------------- Redis lists
\* LRANGE logs:<id> 0 -1, and RPUSH logs:<id> entry
LRange(l, buildID) == IF buildID \in DOMAIN l THEN l[buildID] ELSE <<>>
RPush(l, buildID, entry) ==
    (buildID :> Append(LRange(l, buildID), entry)) @@ l

\* ------------------------------------------------------------- Builder
StatusKey(buildID) == "build:status:" \o buildID

\* updateBuildStatusInRedis: the Builder's own copy of the build state,
\* read from build:status:<id>, else seeded from build:<id>, else empty
updateBuildStatusInRedis(r, buildID, status, message, artifactURL, t) ==
    LET existing ==
            IF StatusKey(buildID) \in DOMAIN r THEN r[StatusKey(buildID)]
            ELSE IF RecordKey(buildID) \in DOMAIN r
            THEN LET j == r[RecordKey(buildID)]
                 IN [id |-> Field(j, "id", ""),
                     repository_url |-> Field(j, "repository_url", ""),
                     branch |-> Field(j, "branch", ""),
                     commit_hash |-> Field(j, "commit_hash", ""),
                     status |-> Field(j, "status", ""),
                     created_at |-> Field(j, "created_at", ZeroTime),
                     updated_at |-> Field(j, "updated_at", ZeroTime)]
            ELSE [created_at |-> t]
        updated ==
            [id |-> buildID, status |-> status, updated_at |-> t] @@
            (IF message # "" THEN [message |-> message] ELSE <<>>) @@
            (IF artifactURL # "" THEN [artifact_url |-> artifactURL]
             ELSE <<>>) @@
            existing
    IN (StatusKey(buildID) :> updated) @@ r

BuilderHasNext == jobOffset < Len(topics["build-jobs"])
BuilderNext == topics["build-jobs"][jobOffset + 1].value

\* a ProcessBuildJob that returns without the deferred RemoveAll
ReturnWithoutCleanup(w, result, registered) ==
    /\ bpc' = [bpc EXCEPT ![w] = "idle"]
    /\ bjob' = [bjob EXCEPT ![w] = <<>>]
    /\ berr' = [berr EXCEPT ![w] = ""]
    /\ bResult' = [bResult EXCEPT ![w] = result]
    /\ UNCHANGED workDirs

\* ProcessBuildJob returns: the deferred RemoveAll(buildDir) runs when it
\* was registered, and the receive loop is free for the next message
Return(w, result, registered) ==
    /\ bpc' = [bpc EXCEPT ![w] = "idle"]
    /\ bjob' = [bjob EXCEPT ![w] = <<>>]
    /\ berr' = [berr EXCEPT ![w] = ""]
    /\ bResult' = [bResult EXCEPT ![w] = result]
    /\ workDirs' = IF registered
                   THEN [workDirs EXCEPT ![w] = @ \ {bjob[w].ID}]
                   ELSE workDirs

Goto(w, pc) ==
    /\ bpc' = [bpc EXCEPT ![w] = pc]
    /\ UNCHANGED <<bjob, berr, bResult, workDirs>>

\* a failing step that notes its error and lets the call go on to the
\* packaging
FailAndGoOn(w, errorMsg) ==
    /\ bpc' = [bpc EXCEPT ![w] = "tar"]
    /\ berr' = [berr EXCEPT ![w] = errorMsg]
    /\ UNCHANGED <<bjob, bResult, workDirs>>

Fail(w, errorMsg) ==
    /\ bpc' = [bpc EXCEPT ![w] = "failLog"]
    /\ berr' = [berr EXCEPT ![w] = errorMsg]
    /\ UNCHANGED <<bjob, bResult, workDirs>>

\* a receive loop that hands each message to the handler without waiting
\* for the handler of the message before it
ProcessBuildJobStartAsync(w, failAt) ==
    /\ BuilderHasNext
    /\ IsJSON(BuilderNext)
    /\ jobOffset' = jobOffset + 1
    /\ Charge(failAt)
    /\ LET buildReq == UnmarshalBuildRequestMessage(BuilderNext)
           statusMsg == [BuildID |-> buildReq.ID, Status |-> "in-progress",
                         Message |-> "Build started", UpdatedAt |-> now]
       IN /\ redis' = updateBuildStatusInRedis(redis, buildReq.ID,
                               "in-progress", "Build started", "", now)
          /\ IF failAt = "send"
             THEN /\ bResult' = [bResult EXCEPT ![w] = "err"]
                  /\ UNCHANGED <<topics, bpc, bjob, berr, workDirs>>
             ELSE /\ topics' = SendMessage(topics, "build-status",
                                  buildReq.ID,
                                  MarshalBuildStatusMessage(statusMsg))
                  /\ bpc' = [bpc EXCEPT ![w] = "mkdir"]
                  /\ bjob' = [bjob EXCEPT ![w] = buildReq]
                  /\ bResult' = [bResult EXCEPT ![w] = "none"]
                  /\ UNCHANGED <<berr, workDirs>>
    /\ UNCHANGED <<now, zset, orchVars, artifacts, uploads, redelivered>>
    /\ UNCHANGED notifVars
    /\ UNCHANGED execVars
    /\ UNCHANGED serviceVars

\* the build-jobs handler and ProcessBuildJob, lines 216-238: the
\* Builder's copy of the status in Redis, then in-progress on build-status
ProcessBuildJobStart(w, failAt) ==
    /\ bpc[w] = "idle"
    /\ BuilderHasNext
    /\ IsJSON(BuilderNext)
    /\ jobOffset' = jobOffset + 1
    /\ Charge(failAt)
    /\ LET buildReq == UnmarshalBuildRequestMessage(BuilderNext)
           statusMsg == [BuildID |-> buildReq.ID, Status |-> "in-progress",
                         Message |-> "Build started", UpdatedAt |-> now]
       IN /\ redis' = updateBuildStatusInRedis(redis, buildReq.ID,
                               "in-progress", "Build started", "", now)
          /\ IF failAt = "send"
             THEN /\ bResult' = [bResult EXCEPT ![w] = "err"]
                  /\ UNCHANGED <<topics, bpc, bjob, berr, workDirs>>
             ELSE /\ topics' = SendMessage(topics, "build-status",
                                  buildReq.ID,
                                  MarshalBuildStatusMessage(statusMsg))
                  /\ bpc' = [bpc EXCEPT ![w] = "mkdir"]
                  /\ bjob' = [bjob EXCEPT ![w] = buildReq]
                  /\ bResult' = [bResult EXCEPT ![w] = "none"]
                  /\ UNCHANGED <<berr, workDirs>>
    /\ UNCHANGED <<now, zset, orchVars, artifacts, uploads, redelivered>>
    /\ UNCHANGED notifVars
    /\ UNCHANGED execVars
    /\ UNCHANGED serviceVars

\* the build-jobs handler, lines 746-749: the payload does not decode, the
\* handler returns the error
BuildJobUnmarshalError(w) ==
    /\ bpc[w] = "idle"
    /\ BuilderHasNext
    /\ ~IsJSON(BuilderNext)
    /\ jobOffset' = jobOffset + 1
    /\ bResult' = [bResult EXCEPT ![w] = "err"]
    /\ UNCHANGED <<bpc, bjob, berr, workDirs>>
    /\ UNCHANGED <<now, topics, redis, zset, orchVars, artifacts, uploads,
                   redelivered, faults>>
    /\ UNCHANGED <<notifVars, execVars, serviceVars>>

\* lines 240-252: os.MkdirAll(buildDir) and the deferred os.RemoveAll
ProcessBuildJobMkdir(w, ok) ==
    /\ bpc[w] = "mkdir"
    /\ IF ok
       THEN /\ workDirs' = [workDirs EXCEPT ![w] = @ \cup {bjob[w].ID}]
            /\ bpc' = [bpc EXCEPT ![w] = "clone"]
            /\ UNCHANGED <<bjob, berr, bResult>>
       ELSE Fail(w, "Failed to create build directory")
    /\ UNCHANGED <<now, topics, redis, zset, orchVars, jobOffset, artifacts,
                   uploads, redelivered, faults>>
    /\ UNCHANGED notifVars
    /\ UNCHANGED execVars
    /\ UNCHANGED serviceVars

\* lines 254-272: git clone
ProcessBuildJobClone(w, ok) ==
    /\ bpc[w] = "clone"
    /\ IF ok THEN Goto(w, "checkout")
       ELSE Fail(w, "Failed to clone repository")
    /\ UNCHANGED <<now, topics, redis, zset, orchVars, jobOffset, artifacts,
                   uploads, redelivered, faults>>
    /\ UNCHANGED notifVars
    /\ UNCHANGED execVars
    /\ UNCHANGED serviceVars

\* lines 274-294: git checkout, for a branch other than main and master
ProcessBuildJobCheckout(w, ok) ==
    /\ bpc[w] = "checkout"
    /\ IF bjob[w].Branch \in {"", "main", "master"} \/ ok
       THEN Goto(w, "executeBuild")
       ELSE Fail(w, "Failed to checkout branch")
    /\ UNCHANGED <<now, topics, redis, zset, orchVars, jobOffset, artifacts,
                   uploads, redelivered, faults>>
    /\ UNCHANGED notifVars
    /\ UNCHANGED execVars
    /\ UNCHANGED serviceVars

\* lines 296-299: executeBuild
ProcessBuildJobExecuteBuild(w, ok) ==
    /\ bpc[w] = "executeBuild"
    /\ IF ok THEN Goto(w, "tar")
       ELSE Fail(w, "failed to build project")
    /\ UNCHANGED <<now, topics, redis, zset, orchVars, jobOffset, artifacts,
                   uploads, redelivered, faults>>
    /\ UNCHANGED notifVars
    /\ UNCHANGED execVars
    /\ UNCHANGED serviceVars

\* createAndUploadArtifact, lines 489-511: tar -czf of the build directory
createAndUploadArtifactTar(w, ok) ==
    /\ bpc[w] = "tar"
    /\ IF ok
       THEN Goto(w, "upload") /\ uploads' = uploads + 1
       ELSE /\ Fail(w, "Failed to create artifact: failed to create artifact")
            /\ UNCHANGED uploads
    /\ UNCHANGED <<now, topics, redis, zset, orchVars, jobOffset, artifacts,
                   redelivered, faults>>
    /\ UNCHANGED notifVars
    /\ UNCHANGED execVars
    /\ UNCHANGED serviceVars

\* uploadArtifact, lines 542-593: POST /artifacts/<id> to the Storage
\* service, which answers 200 once the file is written
uploadArtifactPost(w, failAt) ==
    /\ bpc[w] = "upload"
    /\ Charge(failAt)
    /\ IF failAt = "post"
       THEN /\ Fail(w, "Failed to create artifact: failed to upload artifact")
            /\ UNCHANGED artifacts
       ELSE /\ artifacts' = UploadArtifact(artifacts, bjob[w].ID, now, uploads)
            /\ Goto(w, "uploaded")
    /\ UNCHANGED <<now, topics, redis, zset, orchVars, jobOffset, uploads,
                   redelivered>>
    /\ UNCHANGED notifVars
    /\ UNCHANGED execVars
    /\ UNCHANGED serviceVars

\* uploadArtifact, lines 594-620: on 200 the Builder stores the artifact
\* URL in its Redis copy and publishes a completion; errors are only logged
uploadArtifactCompletion(w, failAt) ==
    /\ bpc[w] = "uploaded"
    /\ Charge(failAt)
    /\ LET buildID == bjob[w].ID
           artifactURL == StorageURL \o "/artifacts/" \o buildID
           completionMessage ==
               [BuildID |-> buildID, Status |-> "success",
                ArtifactURL |-> artifactURL, Duration |-> 0,
                CompletedAt |-> now]
       IN /\ redis' = updateBuildStatusInRedis(redis, buildID,
                               "completed", "", artifactURL, now)
          /\ topics' = IF failAt = "send" THEN topics
                       ELSE SendMessage(topics, "build-completions", buildID,
                                MarshalBuildCompletionMessage(
                                    completionMessage))
    /\ Goto(w, "complete")
    /\ UNCHANGED <<now, zset, orchVars, jobOffset, artifacts, uploads,
                   redelivered>>
    /\ UNCHANGED notifVars
    /\ UNCHANGED execVars
    /\ UNCHANGED serviceVars

\* a Builder that publishes the completed status where the completion
\* message belongs
ProcessBuildJobStatusFirst(w, failAt) ==
    /\ bpc[w] = "complete"
    /\ Charge(failAt)
    /\ LET statusMsg == [BuildID |-> bjob[w].ID, Status |-> "completed",
                         Message |-> "Build completed successfully",
                         UpdatedAt |-> now]
       IN IF failAt = "send"
          THEN Return(w, "err", TRUE) /\ UNCHANGED topics
          ELSE /\ topics' = SendMessage(topics, "build-status", bjob[w].ID,
                               MarshalBuildStatusMessage(statusMsg))
               /\ Goto(w, "completeStatus")
    /\ UNCHANGED <<now, redis, zset, orchVars, jobOffset, artifacts, uploads,
                   redelivered>>
    /\ UNCHANGED notifVars
    /\ UNCHANGED execVars
    /\ UNCHANGED serviceVars

\* ProcessBuildJob, lines 306-319: the completion message
ProcessBuildJobCompletion(w, failAt) ==
    /\ bpc[w] = "complete"
    /\ Charge(failAt)
    /\ LET buildReq == bjob[w]
           completionMsg ==
               [BuildID |-> buildReq.ID, Status |-> "success",
                ArtifactURL |-> "/artifacts/" \o buildReq.ID,
                Duration |-> now - buildReq.CreatedAt,
                CompletedAt |-> now]
       IN IF failAt = "send"
          THEN Return(w, "err", TRUE) /\ UNCHANGED topics
          ELSE /\ topics' = SendMessage(topics, "build-completions",
                               buildReq.ID,
                               MarshalBuildCompletionMessage(completionMsg))
               /\ Goto(w, "completeStatus")
    /\ UNCHANGED <<now, redis, zset, orchVars, jobOffset, artifacts, uploads,
                   redelivered>>
    /\ UNCHANGED notifVars
    /\ UNCHANGED execVars
    /\ UNCHANGED serviceVars

\* ProcessBuildJob, lines 321-327: the completed status
ProcessBuildJobStatus(w, failAt) ==
    /\ bpc[w] = "completeStatus"
    /\ Charge(failAt)
    /\ LET statusMsg == [BuildID |-> bjob[w].ID, Status |-> "completed",
                         Message |-> "Build completed successfully",
                         UpdatedAt |-> now]
       IN IF failAt = "send"
          THEN Return(w, "err", TRUE) /\ UNCHANGED topics
          ELSE /\ topics' = SendMessage(topics, "build-status", bjob[w].ID,
                               MarshalBuildStatusMessage(statusMsg))
               /\ Return(w, "ok", TRUE)
    /\ UNCHANGED <<now, redis, zset, orchVars, jobOffset, artifacts, uploads,
                   redelivered>>
    /\ UNCHANGED notifVars
    /\ UNCHANGED execVars
    /\ UNCHANGED serviceVars

\* the deferred RemoveAll is registered once MkdirAll has succeeded
Registered(w) == berr[w] # "Failed to create build directory"

\* a failBuild that goes on without the log line
failBuildLogOmitted(w) ==
    /\ bpc[w] = "failLog"
    /\ Goto(w, "failBuild")
    /\ UNCHANGED <<now, topics, redis, zset, orchVars, jobOffset, artifacts,
                   uploads, redelivered, faults>>
    /\ UNCHANGED notifVars
    /\ UNCHANGED execVars
    /\ UNCHANGED serviceVars

\* failBuild, lines 627-634: the failure reason as a log line on
\* build-logs and, by storeBuildLogInRedis, at the end of logs:<id>; the
\* errors of both are discarded
failBuildLog(w) ==
    /\ bpc[w] = "failLog"
    /\ LET logMsg == [BuildID |-> bjob[w].ID,
                      LogEntry |-> "Build failed: " \o berr[w],
                      Timestamp |-> now]
       IN topics' = SendMessage(topics, "build-logs", bjob[w].ID,
                                MarshalBuildLogMessage(logMsg))
    /\ logs' = RPush(logs, bjob[w].ID, "Build failed: " \o berr[w])
    /\ Goto(w, "failBuild")
    /\ UNCHANGED <<now, redis, zset, orchVars, jobOffset, artifacts, uploads,
                   redelivered, faults>>
    /\ UNCHANGED notifVars
    /\ UNCHANGED execVars
    /\ UNCHANGED <<consumerVars, httpVars, dashOffset>>

\* failBuild, lines 636-646: the failure completion
failBuild(w, failAt) ==
    /\ bpc[w] = "failBuild"
    /\ Charge(failAt)
    /\ LET completionMsg ==
               [BuildID |-> bjob[w].ID, Status |-> "failure",
                ArtifactURL |-> "", Duration |-> 0, CompletedAt |-> now]
       IN IF failAt = "send"
          THEN Return(w, "err", Registered(w)) /\ UNCHANGED topics
          ELSE /\ topics' = SendMessage(topics, "build-completions",
                               bjob[w].ID,
                               MarshalBuildCompletionMessage(completionMsg))
               /\ Goto(w, "failStatus")
    /\ UNCHANGED <<now, redis, zset, orchVars, jobOffset, artifacts, uploads,
                   redelivered>>
    /\ UNCHANGED notifVars
    /\ UNCHANGED execVars
    /\ UNCHANGED serviceVars

\* failBuild, lines 648-654: the failed status with the error message
failBuildStatus(w, failAt) ==
    /\ bpc[w] = "failStatus"
    /\ Charge(failAt)
    /\ LET statusMsg == [BuildID |-> bjob[w].ID, Status |-> "failed",
                         Message |-> berr[w], UpdatedAt |-> now]
       IN IF failAt = "send"
          THEN Return(w, "err", Registered(w)) /\ UNCHANGED topics
          ELSE /\ topics' = SendMessage(topics, "build-status", bjob[w].ID,
                               MarshalBuildStatusMessage(statusMsg))
               /\ Return(w, "ok", Registered(w))
    /\ UNCHANGED <<now, redis, zset, orchVars, jobOffset, artifacts, uploads,
                   redelivered>>
    /\ UNCHANGED notifVars
    /\ UNCHANGED execVars
    /\ UNCHANGED serviceVars

\* at-least-once delivery of build-jobs
BuilderRedeliver ==
    /\ jobOffset > 0
    /\ redelivered < MaxRedeliver
    /\ redelivered' = redelivered + 1
    /\ jobOffset' = jobOffset - 1
    /\ UNCHANGED <<now, topics, redis, zset, orchVars, builderVars, artifacts,
                   uploads, faults>>
    /\ UNCHANGED notifVars
    /\ UNCHANGED execVars
    /\ UNCHANGED serviceVars

\* -------------------------------------------------------- executeBuild
\* the files executeBuild and the detect functions look for in buildDir
MarkerFiles == {"build.sh", "package.json", "go.mod", "pnpm-lock.yaml",
                "package-lock.json", "yarn.lock"}

\* os.Stat(path) followed by os.IsNotExist(err)
IsNotExist(files, name) == name \notin files

\* a detectProjectType that looks for go.mod first
detectProjectTypeGoFirst(files) ==
    IF ~IsNotExist(files, "go.mod") THEN "go"
    ELSE IF ~IsNotExist(files, "package.json") THEN "node"
    ELSE "unknown"

\* detectProjectType, lines 658-670
detectProjectType(files) ==
    IF ~IsNotExist(files, "package.json") THEN "node"
    ELSE IF ~IsNotExist(files, "go.mod") THEN "go"
    ELSE "unknown"

\* a detectNodePackageManager that looks for package-lock.json first
detectNodePackageManagerNpmFirst(files) ==
    IF ~IsNotExist(files, "package-lock.json") THEN "npm"
    ELSE IF ~IsNotExist(files, "pnpm-lock.yaml") THEN "pnpm"
    ELSE IF ~IsNotExist(files, "yarn.lock") THEN "yarn"
    ELSE "unknown"

\* detectNodePackageManager, lines 672-686
detectNodePackageManager(files) ==
    IF ~IsNotExist(files, "pnpm-lock.yaml") THEN "pnpm"
    ELSE IF ~IsNotExist(files, "package-lock.json") THEN "npm"
    ELSE IF ~IsNotExist(files, "yarn.lock") THEN "yarn"
    ELSE "unknown"

\* control enters function fn
Call(fn) ==
    /\ execPc' = fn
    /\ execCalls' = Append(execCalls, fn)

\* executeBuild returns err, nil being ""
ExecReturn(err) ==
    /\ execPc' = "done"
    /\ execErr' = err
    /\ UNCHANGED execCalls

\* exec.Command(...).Run() of the given command line
Run(cmd) == execCmds' = Append(execCmds, cmd)

\* an executeBuild that looks at the project type before the build script
executeBuildDetectFirst ==
    /\ execPc = "executeBuild"
    /\ IF detectProjectType(buildFiles) # "unknown"
          \/ IsNotExist(buildFiles, "build.sh")
       THEN Call("detectProjectType")
       ELSE Call("runBuildScript")
    /\ UNCHANGED <<buildFiles, projectType, packageManager, execCmds,
                   execErr>>
    /\ UNCHANGED <<pipelineVars, notifVars>>
    /\ UNCHANGED serviceVars

\* executeBuild, lines 331-340: the build script decides
executeBuild ==
    /\ execPc = "executeBuild"
    /\ IF IsNotExist(buildFiles, "build.sh")
       THEN Call("detectProjectType")
       ELSE Call("runBuildScript")
    /\ UNCHANGED <<buildFiles, projectType, packageManager, execCmds,
                   execErr>>
    /\ UNCHANGED <<pipelineVars, notifVars>>
    /\ UNCHANGED serviceVars

\* executeBuild, line 335: projectType := b.detectProjectType(buildDir)
executeBuildDetect ==
    /\ execPc = "detectProjectType"
    /\ projectType' = detectProjectType(buildFiles)
    /\ Call("buildByProjectType")
    /\ UNCHANGED <<buildFiles, packageManager, execCmds, execErr>>
    /\ UNCHANGED <<pipelineVars, notifVars>>
    /\ UNCHANGED serviceVars

\* buildByProjectType, lines 343-352
buildByProjectType ==
    /\ execPc = "buildByProjectType"
    /\ CASE projectType = "node" -> Call("buildNodeProject")
         [] projectType = "go" -> Call("buildGoProject")
         [] OTHER -> ExecReturn("unknown project type: " \o projectType
                                   \o ", no build script found")
    /\ IF projectType \in {"node", "go"} THEN UNCHANGED execErr
       ELSE TRUE
    /\ UNCHANGED <<buildFiles, projectType, packageManager, execCmds>>
    /\ UNCHANGED <<pipelineVars, notifVars>>
    /\ UNCHANGED serviceVars

\* buildNodeProject, lines 355-364: the package manager, npm when none of
\* the lock files is there
buildNodeProject ==
    /\ execPc = "buildNodeProject"
    /\ LET detected == detectNodePackageManager(buildFiles)
       IN packageManager' = IF detected = "unknown" THEN "npm" ELSE detected
    /\ execPc' = "install"
    /\ execCalls' = Append(execCalls, "detectNodePackageManager")
    /\ UNCHANGED <<buildFiles, projectType, execCmds, execErr>>
    /\ UNCHANGED <<pipelineVars, notifVars>>
    /\ UNCHANGED serviceVars

\* buildNodeProject, lines 366-383: <packageManager> install
buildNodeProjectInstall(ok) ==
    /\ execPc = "install"
    /\ Run(<<packageManager, "install">>)
    /\ IF ok
       THEN execPc' = "run build" /\ UNCHANGED <<execCalls, execErr>>
       ELSE ExecReturn("failed to install dependencies")
    /\ UNCHANGED <<buildFiles, projectType, packageManager>>
    /\ UNCHANGED <<pipelineVars, notifVars>>
    /\ UNCHANGED serviceVars

\* buildNodeProject, lines 385-403: <packageManager> run build
buildNodeProjectBuild(ok) ==
    /\ execPc = "run build"
    /\ Run(<<packageManager, "run", "build">>)
    /\ ExecReturn(IF ok THEN "" ELSE "failed to build project")
    /\ UNCHANGED <<buildFiles, projectType, packageManager>>
    /\ UNCHANGED <<pipelineVars, notifVars>>
    /\ UNCHANGED serviceVars

\* buildGoProject, lines 407-441: go build -o app
buildGoProject(ok) ==
    /\ execPc = "buildGoProject"
    /\ Run(<<"go", "build", "-o", "app">>)
    /\ ExecReturn(IF ok THEN "" ELSE "failed to build project")
    /\ UNCHANGED <<buildFiles, projectType, packageManager>>
    /\ UNCHANGED <<pipelineVars, notifVars>>
    /\ UNCHANGED serviceVars

\* runBuildScript, lines 444-478: /bin/sh build.sh in buildDir
runBuildScript(ok) ==
    /\ execPc = "runBuildScript"
    /\ Run(<<"/bin/sh", "build.sh">>)
    /\ ExecReturn(IF ok THEN "" ELSE "build script failed")
    /\ UNCHANGED <<buildFiles, projectType, packageManager>>
    /\ UNCHANGED <<pipelineVars, notifVars>>
    /\ UNCHANGED serviceVars

\* ------------------------------------------------- status-dashboard-api
DashTopics == {"build-status", "build-logs", "build-completions"}

\* the handler of the status-dashboard-api, lines 338-345, with
\* ProcessBuildLog, lines 212-223: every message of the three topics that
\* decodes with a build id is appended to logs:<id> with its log_entry
ProcessBuildLog(t) ==
    /\ dashOffset[t] < Len(topics[t])
    /\ dashOffset' = [dashOffset EXCEPT ![t] = @ + 1]
    /\ LET value == topics[t][dashOffset[t] + 1].value
           logMsg == UnmarshalBuildLogMessage(value)
       IN logs' = IF IsJSON(value) /\ logMsg.BuildID # ""
                  THEN RPush(logs, logMsg.BuildID, logMsg.LogEntry)
                  ELSE logs
    /\ UNCHANGED <<pipelineVars, notifVars, execVars, consumerVars, httpVars>>

\* ------------------------------------------------------------ Consumer
\* Subscribe, line 35
maxRetries == 15
\* Subscribe, line 36: time.Second * 2
InitialRetryDelay == 2000
\* the number of events the model lets Poll return
MaxPolls == 3

\* what SubscribeTopics returns: nil, written "", or an error
SubscribeErrors == {"ErrUnknownTopicOrPart", "ErrTransport"}
\* what Poll returns: nothing within 100 ms, a message, or an error event
PollEvents == {"nil", "Message", "ErrUnknownTopicOrPart", "ErrBadMsg",
               "ErrTimedOut", "ErrAllBrokersDown", "ErrTransport"}

\* a Subscribe that sleeps after every failed attempt, the last included
SubscribeTopicsSleepAlways(err) ==
    /\ mainPc = "Subscribe"
    /\ subPc = "SubscribeTopics"
    /\ subI < maxRetries
    /\ subCalls' = subCalls + 1
    /\ subErr' = err
    /\ subPc' = IF err = "" THEN "return" ELSE "Sleep"
    /\ UNCHANGED <<mainPc, subI, retryDelay, subSleeps, run, polled>>
    /\ UNCHANGED <<pipelineVars, notifVars, execVars, httpVars, dashVars>>

\* Subscribe, lines 39-47: one pass of the loop up to the sleep; after the
\* last attempt the loop ends with i = maxRetries and err is returned
SubscribeTopics(err) ==
    /\ mainPc = "Subscribe"
    /\ subPc = "SubscribeTopics"
    /\ subI < maxRetries
    /\ subCalls' = subCalls + 1
    /\ subErr' = err
    /\ IF err = ""
       THEN subPc' = "return" /\ UNCHANGED subI
       ELSE IF subI < maxRetries - 1
            THEN subPc' = "Sleep" /\ UNCHANGED subI
            ELSE subPc' = "return" /\ subI' = subI + 1
    /\ UNCHANGED <<mainPc, retryDelay, subSleeps, run, polled>>
    /\ UNCHANGED <<pipelineVars, notifVars, execVars, httpVars, dashVars>>

\* Subscribe, lines 50-52: the sleep, the longer delay, and i++
Sleep ==
    /\ mainPc = "Subscribe"
    /\ subPc = "Sleep"
    /\ subSleeps' = subSleeps + 1
    /\ retryDelay' = (retryDelay * 3) \div 2
    /\ subI' = subI + 1
    /\ subPc' = IF subI + 1 < maxRetries THEN "SubscribeTopics" ELSE "return"
    /\ UNCHANGED <<mainPc, subErr, subCalls, run, polled>>
    /\ UNCHANGED <<pipelineVars, notifVars, execVars, httpVars, dashVars>>

\* main: log.Fatalf on the error of Subscribe, otherwise the goroutine
\* with ConsumeMessages is started and main serves HTTP
mainSubscribed ==
    /\ mainPc = "Subscribe"
    /\ subPc = "return"
    /\ mainPc' = IF subErr # "" THEN "exit" ELSE "ConsumeMessages"
    /\ UNCHANGED <<subPc, subI, subErr, retryDelay, subCalls, subSleeps, run,
                   polled>>
    /\ UNCHANGED <<pipelineVars, notifVars, execVars, httpVars, dashVars>>

\* ConsumeMessages, lines 64-93: one pass of the loop with what Poll
\* returned; only ErrAllBrokersDown ends the loop
Poll(ev) ==
    /\ mainPc = "ConsumeMessages"
    /\ run
    /\ polled < MaxPolls
    /\ polled' = polled + 1
    /\ run' = (ev # "ErrAllBrokersDown")
    /\ UNCHANGED <<mainPc, subPc, subI, subErr, retryDelay, subCalls,
                   subSleeps>>
    /\ UNCHANGED <<pipelineVars, notifVars, execVars, httpVars, dashVars>>

\* ConsumeMessages, lines 66-68: SIGINT or SIGTERM ends the loop
Signal ==
    /\ mainPc = "ConsumeMessages"
    /\ run
    /\ run' = FALSE
    /\ UNCHANGED <<mainPc, subPc, subI, subErr, retryDelay, subCalls,
                   subSleeps, polled>>
    /\ UNCHANGED <<pipelineVars, notifVars, execVars, httpVars, dashVars>>

\* -------------------------------------------------------- Notification
\* the websocket connections a run accepts, the clientId and buildId query
\* parameters they come with, and the builds the events are about
Conns == {"k1", "k2"}
ClientIds == {"c1", "c2"}
Filters == {"", "b1"}
EventBuildIds == {"b1", "b2"}
\* the number of progress events on the three topics
MaxEvents == 2

NotifTopics == {"build-status", "build-logs", "build-completions"}

NoConn == [state |-> "none"]

\* HandleWebSocket up to the read loop: a request without clientId is
\* closed and the handler returns; otherwise the client is put into
\* ns.clients under its clientId, replacing what was there
HandleWebSocket(k, clientID, buildID) ==
    /\ conns[k].state = "none"
    /\ IF clientID = ""
       THEN /\ conns' = [conns EXCEPT ![k] =
                            [state |-> "closed", clientID |-> clientID,
                             buildID |-> buildID, broken |-> FALSE]]
            /\ UNCHANGED clients
       ELSE /\ conns' = [conns EXCEPT ![k] =
                            [state |-> "open", clientID |-> clientID,
                             buildID |-> buildID, broken |-> FALSE]]
            /\ clients' = (clientID :> k) @@ clients
    /\ UNCHANGED <<now, topics, redis, zset, orchVars, jobOffset, builderVars,
                   artifacts, uploads, redelivered, faults, frames,
                   notifOffset>>
    /\ UNCHANGED execVars
    /\ UNCHANGED serviceVars

\* the connection breaks: writes to it fail from now on, the read loop has
\* not seen it yet
BreakConn(k) ==
    /\ conns[k].state = "open"
    /\ ~conns[k].broken
    /\ conns' = [conns EXCEPT ![k].broken = TRUE]
    /\ UNCHANGED <<now, topics, redis, zset, orchVars, jobOffset, builderVars,
                   artifacts, uploads, redelivered, faults, clients, frames,
                   notifOffset>>
    /\ UNCHANGED execVars
    /\ UNCHANGED serviceVars

\* HandleWebSocket, lines 63-76: ReadMessage fails, the loop breaks and the
\* deferred function deletes ns.clients[clientID] and closes the connection
HandleWebSocketClose(k) ==
    /\ conns[k].state = "open"
    /\ conns' = [conns EXCEPT ![k] = [@ EXCEPT !.state = "closed"]]
    /\ clients' = [c \in (DOMAIN clients) \ {conns[k].clientID} |-> clients[c]]
    /\ UNCHANGED <<now, topics, redis, zset, orchVars, jobOffset, builderVars,
                   artifacts, uploads, redelivered, faults, frames,
                   notifOffset>>
    /\ UNCHANGED execVars
    /\ UNCHANGED serviceVars

\* the handler main passes to ConsumeMessages: the first message type that
\* fits decides; a status message without updated_at is dropped
NotifyDispatch(value) ==
    IF /\ UnmarshalBuildStatusMessage(value).BuildID # ""
       /\ UnmarshalBuildStatusMessage(value).Status # ""
    THEN IF UnmarshalBuildStatusMessage(value).UpdatedAt # ZeroTime
         THEN "status" ELSE "dropped"
    ELSE IF /\ UnmarshalBuildLogMessage(value).BuildID # ""
            /\ UnmarshalBuildLogMessage(value).LogEntry # ""
         THEN "log"
    ELSE IF /\ UnmarshalBuildCompletionMessage(value).BuildID # ""
            /\ UnmarshalBuildCompletionMessage(value).Status # ""
         THEN "completion"
    ELSE "unknown"

\* the frame BroadcastBuildStatus, BroadcastBuildLog and
\* BroadcastBuildCompletion write for a message
Frame(kind, value) ==
    CASE kind = "status" ->
            LET statusMsg == UnmarshalBuildStatusMessage(value)
            IN [type |-> "status", buildId |-> statusMsg.BuildID,
                status |-> statusMsg.Status, message |-> statusMsg.Message,
                time |-> statusMsg.UpdatedAt]
      [] kind = "log" ->
            LET logMsg == UnmarshalBuildLogMessage(value)
            IN [type |-> "log", buildId |-> logMsg.BuildID,
                log |-> logMsg.LogEntry, time |-> logMsg.Timestamp]
      [] kind = "completion" ->
            LET completionMsg == UnmarshalBuildCompletionMessage(value)
            IN [type |-> "completion", buildId |-> completionMsg.BuildID,
                status |-> completionMsg.Status,
                artifactUrl |-> completionMsg.ArtifactURL,
                duration |-> completionMsg.Duration,
                time |-> completionMsg.CompletedAt]

\* the broadcast without the comparison of client.buildID: every
\* registered client is written to
RecipientsUnfiltered(buildID) ==
    {clients[c] : c \in DOMAIN clients}

\* the connections a broadcast of a frame about buildID writes to: the
\* registered clients whose buildID is empty or equal to it
Recipients(buildID) ==
    {clients[c] : c \in {d \in DOMAIN clients :
        conns[clients[d]].buildID \in {"", buildID}}}

\* the broadcast giving up at the first failed write: with a broken
\* recipient in the way the frame reaches nobody
BroadcastAbortOnError(frame) ==
    frames' = [k \in Conns |->
        IF /\ k \in Recipients(frame.buildId)
           /\ \A j \in Recipients(frame.buildId) : ~conns[j].broken
        THEN Append(frames[k], frame) ELSE frames[k]]

\* the three Broadcast functions: WriteJSON to every recipient, a failed
\* write being logged
Broadcast(frame) ==
    frames' = [k \in Conns |->
        IF k \in Recipients(frame.buildId) /\ ~conns[k].broken
        THEN Append(frames[k], frame) ELSE frames[k]]

\* one message taken from a subscribed topic and handled
NotifyConsume(t) ==
    /\ notifOffset[t] < Len(topics[t])
    /\ notifOffset' = [notifOffset EXCEPT ![t] = @ + 1]
    /\ LET value == topics[t][notifOffset[t] + 1].value
           kind == NotifyDispatch(value)
       IN IF kind \in {"status", "log", "completion"}
          THEN Broadcast(Frame(kind, value))
          ELSE UNCHANGED frames
    /\ UNCHANGED <<now, topics, redis, zset, orchVars, jobOffset, builderVars,
                   artifacts, uploads, redelivered, faults, conns, clients>>
    /\ UNCHANGED execVars
    /\ UNCHANGED serviceVars

\* the progress events the Builder publishes about a build: a status, a
\* log line, a completion
ProgressEvent(b, kind, t) ==
    CASE kind = "status" ->
            [topic |-> "build-status",
             value |-> MarshalBuildStatusMessage(
                 [BuildID |-> b, Status |-> "in-progress",
                  Message |-> "Build started", UpdatedAt |-> t])]
      [] kind = "log" ->
            [topic |-> "build-logs",
             value |-> MarshalBuildLogMessage(
                 [BuildID |-> b, LogEntry |-> "Cloning repository...",
                  Timestamp |-> t])]
      [] kind = "completion" ->
            [topic |-> "build-completions",
             value |-> MarshalBuildCompletionMessage(
                 [BuildID |-> b, Status |-> "success",
                  ArtifactURL |-> StorageURL \o "/artifacts/" \o b,
                  Duration |-> 0, CompletedAt |-> t])]

EventCount ==
    Len(topics["build-status"]) + Len(topics["build-logs"])
        + Len(topics["build-completions"])

\* a Builder publishes a progress event about one of the builds
EmitProgress(b, kind) ==
    /\ EventCount < MaxEvents
    /\ LET e == ProgressEvent(b, kind, now)
       IN topics' = SendMessage(topics, e.topic, b, e.value)
    /\ UNCHANGED <<now, redis, zset, orchVars, jobOffset, builderVars,
                   artifacts, uploads, redelivered, faults, notifVars>>
    /\ UNCHANGED execVars
    /\ UNCHANGED serviceVars

\* --------------------------------------------------------------- clock
\* the clock has a resolution of one second; the model lets it advance
\* while a job waits in build-jobs for a free worker
Tick ==
    /\ now < MaxTime
    /\ orchPc = "idle"
    /\ \A w \in Workers : bpc[w] = "idle"
    /\ BuilderHasNext
    /\ now' = now + 1
    /\ UNCHANGED <<topics, redis, zset, orchVars, jobOffset, builderVars,
                   artifacts, uploads, redelivered, faults>>
    /\ UNCHANGED notifVars
    /\ UNCHANGED execVars
    /\ UNCHANGED serviceVars

\* ------------------------------------------------------- specification
InitPipeline ==
    /\ now = 1
    /\ topics = [t \in TopicNames |-> <<>>]
    /\ redis = <<>>
    /\ zset = <<>>
    /\ orchOffset = [t \in OrchTopics |-> 0]
    /\ orchPc = "idle"
    /\ orchLocal = <<>>
    /\ orchResult = "none"
    /\ jobOffset = 0
    /\ bpc = [w \in Workers |-> "idle"]
    /\ bjob = [w \in Workers |-> <<>>]
    /\ berr = [w \in Workers |-> ""]
    /\ bResult = [w \in Workers |-> "none"]
    /\ workDirs = [w \in Workers |-> {}]
    /\ artifacts = <<>>
    /\ uploads = 0
    /\ redelivered = 0
    /\ faults = 0
    /\ conns = [k \in Conns |-> NoConn]
    /\ clients = <<>>
    /\ frames = [k \in Conns |-> <<>>]
    /\ notifOffset = [t \in NotifTopics |-> 0]

\* executeBuild before its first statement, in a build directory with the
\* given files
InitExecuteBuild(files) ==
    /\ buildFiles = files
    /\ execPc = "executeBuild"
    /\ projectType = ""
    /\ packageManager = ""
    /\ execCalls = <<>>
    /\ execCmds = <<>>
    /\ execErr = ""

InitHTTP ==
    /\ getResp = NoResponse
    /\ postResp = NoResponse
    /\ storeResp = [buildId |-> "", response |-> NoResponse]
    /\ logs = <<>>
    /\ dashOffset = [t \in {"build-status", "build-logs",
                             "build-completions"} |-> 0]

\* a service whose Subscribe succeeded at once and whose receive loop runs
InitServing ==
    /\ mainPc = "ConsumeMessages"
    /\ subPc = "return"
    /\ subI = 0
    /\ subErr = ""
    /\ retryDelay = InitialRetryDelay
    /\ subCalls = 1
    /\ subSleeps = 0
    /\ run = TRUE
    /\ polled = 0
    /\ InitHTTP

\* a service's main at its call of Subscribe
InitSubscribe ==
    /\ mainPc = "Subscribe"
    /\ subPc = "SubscribeTopics"
    /\ subI = 0
    /\ subErr = ""
    /\ retryDelay = InitialRetryDelay
    /\ subCalls = 0
    /\ subSleeps = 0
    /\ run = TRUE
    /\ polled = 0
    /\ InitHTTP

Init ==
    /\ InitPipeline
    /\ InitExecuteBuild({})
    /\ InitServing

Next ==
    \/ \E b \in BuildIds : SubmitBuild(b)
    \/ \E t \in OrchTopics : \E f \in {"none", "store"} : ProcessBuildRequestStore(t, f)
    \/ \E f \in {"none", "send"} : ProcessBuildRequestSendStatus(f)
    \/ \E f \in {"none", "send"} : ProcessBuildRequestSendJob(f)
    \/ \E t \in OrchTopics : ProcessBuildStatus(t)
    \/ \E t \in OrchTopics : \E f \in {"none", "send"} : ProcessBuildCompletion(t, f)
    \/ \E t \in OrchTopics : OrchRedeliver(t)
    \/ \E w \in Workers : \E f \in {"none", "send"} : ProcessBuildJobStart(w, f)
    \/ \E w \in Workers : \E ok \in BOOLEAN : ProcessBuildJobMkdir(w, ok)
    \/ \E w \in Workers : \E ok \in BOOLEAN : ProcessBuildJobClone(w, ok)
    \/ \E w \in Workers : \E ok \in BOOLEAN : ProcessBuildJobCheckout(w, ok)
    \/ \E w \in Workers : \E ok \in BOOLEAN : ProcessBuildJobExecuteBuild(w, ok)
    \/ \E w \in Workers : \E ok \in BOOLEAN : createAndUploadArtifactTar(w, ok)
    \/ \E w \in Workers : \E f \in {"none", "post"} : uploadArtifactPost(w, f)
    \/ \E w \in Workers : \E f \in {"none", "send"} : uploadArtifactCompletion(w, f)
    \/ \E w \in Workers : \E f \in {"none", "send"} : ProcessBuildJobCompletion(w, f)
    \/ \E w \in Workers : \E f \in {"none", "send"} : ProcessBuildJobStatus(w, f)
    \/ \E w \in Workers : failBuildLog(w)
    \/ \E w \in Workers : \E f \in {"none", "send"} : failBuild(w, f)
    \/ \E w \in Workers : \E f \in {"none", "send"} : failBuildStatus(w, f)
    \/ BuilderRedeliver
    \/ Tick

Spec == Init /\ [][Next]_vars

\* the clock advancing between two calls of the Orchestrator's handler
TickIdle ==
    /\ now < MaxTime
    /\ orchPc = "idle"
    /\ now' = now + 1
    /\ UNCHANGED <<topics, redis, zset, orchVars, jobOffset, builderVars,
                   artifacts, uploads, redelivered, faults>>
    /\ UNCHANGED notifVars
    /\ UNCHANGED execVars
    /\ UNCHANGED serviceVars

\* the Orchestrator's ingestion of build requests on its own: the gateway,
\* the request handler, the status handler consuming the queued status the
\* Orchestrator publishes itself, redelivery, and the clock
NextIngest ==
    \/ \E b \in BuildIds : SubmitBuild(b)
    \/ \E t \in OrchTopics : \E f \in {"none", "store"} : ProcessBuildRequestStore(t, f)
    \/ \E f \in {"none", "send"} : ProcessBuildRequestSendStatus(f)
    \/ \E f \in {"none", "send"} : ProcessBuildRequestSendJob(f)
    \/ \E t \in OrchTopics : ProcessBuildStatus(t)
    \/ \E t \in OrchTopics : OrchRedeliver(t)
    \/ TickIdle

SpecIngest == Init /\ [][NextIngest]_vars

\* the Builder with what feeds it: the gateway, the Orchestrator's request
\* handler putting the job on build-jobs, the worker, redelivery of the
\* job, and the clock
NextBuild ==
    \/ \E b \in BuildIds : SubmitBuild(b)
    \/ \E t \in OrchTopics : \E f \in {"none", "store"} : ProcessBuildRequestStore(t, f)
    \/ \E f \in {"none", "send"} : ProcessBuildRequestSendStatus(f)
    \/ \E f \in {"none", "send"} : ProcessBuildRequestSendJob(f)
    \/ \E w \in Workers : \E f \in {"none", "send"} : ProcessBuildJobStart(w, f)
    \/ \E w \in Workers : \E ok \in BOOLEAN : ProcessBuildJobMkdir(w, ok)
    \/ \E w \in Workers : \E ok \in BOOLEAN : ProcessBuildJobClone(w, ok)
    \/ \E w \in Workers : \E ok \in BOOLEAN : ProcessBuildJobCheckout(w, ok)
    \/ \E w \in Workers : \E ok \in BOOLEAN : ProcessBuildJobExecuteBuild(w, ok)
    \/ \E w \in Workers : \E ok \in BOOLEAN : createAndUploadArtifactTar(w, ok)
    \/ \E w \in Workers : \E f \in {"none", "post"} : uploadArtifactPost(w, f)
    \/ \E w \in Workers : \E f \in {"none", "send"} : uploadArtifactCompletion(w, f)
    \/ \E w \in Workers : \E f \in {"none", "send"} : ProcessBuildJobCompletion(w, f)
    \/ \E w \in Workers : \E f \in {"none", "send"} : ProcessBuildJobStatus(w, f)
    \/ \E w \in Workers : failBuildLog(w)
    \/ \E w \in Workers : \E f \in {"none", "send"} : failBuild(w, f)
    \/ \E w \in Workers : \E f \in {"none", "send"} : failBuildStatus(w, f)
    \/ BuilderRedeliver
    \/ Tick

SpecBuild == Init /\ [][NextBuild]_vars

\* one pass of the pipeline: every message is delivered once
NextOnce ==
    \/ \E b \in BuildIds : SubmitBuild(b)
    \/ \E t \in OrchTopics : \E f \in {"none", "store"} : ProcessBuildRequestStore(t, f)
    \/ \E f \in {"none", "send"} : ProcessBuildRequestSendStatus(f)
    \/ \E f \in {"none", "send"} : ProcessBuildRequestSendJob(f)
    \/ \E t \in OrchTopics : ProcessBuildStatus(t)
    \/ \E t \in OrchTopics : \E f \in {"none", "send"} : ProcessBuildCompletion(t, f)
    \/ \E w \in Workers : \E f \in {"none", "send"} : ProcessBuildJobStart(w, f)
    \/ \E w \in Workers : \E ok \in BOOLEAN : ProcessBuildJobMkdir(w, ok)
    \/ \E w \in Workers : \E ok \in BOOLEAN : ProcessBuildJobClone(w, ok)
    \/ \E w \in Workers : \E ok \in BOOLEAN : ProcessBuildJobCheckout(w, ok)
    \/ \E w \in Workers : \E ok \in BOOLEAN : ProcessBuildJobExecuteBuild(w, ok)
    \/ \E w \in Workers : \E ok \in BOOLEAN : createAndUploadArtifactTar(w, ok)
    \/ \E w \in Workers : \E f \in {"none", "post"} : uploadArtifactPost(w, f)
    \/ \E w \in Workers : \E f \in {"none", "send"} : uploadArtifactCompletion(w, f)
    \/ \E w \in Workers : \E f \in {"none", "send"} : ProcessBuildJobCompletion(w, f)
    \/ \E w \in Workers : \E f \in {"none", "send"} : ProcessBuildJobStatus(w, f)
    \/ \E w \in Workers : failBuildLog(w)
    \/ \E w \in Workers : \E f \in {"none", "send"} : failBuild(w, f)
    \/ \E w \in Workers : \E f \in {"none", "send"} : failBuildStatus(w, f)
    \/ Tick

SpecOnce == Init /\ [][NextOnce]_vars

\* executeBuild on its own, in a build directory with any of the files it
\* looks for
InitExec ==
    /\ InitPipeline
    /\ \E files \in SUBSET MarkerFiles : InitExecuteBuild(files)
    /\ InitServing

NextExec ==
    \/ executeBuild
    \/ executeBuildDetect
    \/ buildByProjectType
    \/ buildNodeProject
    \/ \E ok \in BOOLEAN : buildNodeProjectInstall(ok)
    \/ \E ok \in BOOLEAN : buildNodeProjectBuild(ok)
    \/ \E ok \in BOOLEAN : buildGoProject(ok)
    \/ \E ok \in BOOLEAN : runBuildScript(ok)

SpecExec == InitExec /\ [][NextExec]_vars

\* a service from its call of Subscribe on: the subscription with its
\* retries, then the receive loop; the statements of Subscribe run on
InitConsumer ==
    /\ InitPipeline
    /\ InitExecuteBuild({})
    /\ InitSubscribe

SubscribeStep ==
    \/ \E err \in SubscribeErrors \cup {""} : SubscribeTopics(err)
    \/ Sleep

NextConsumer ==
    \/ \E err \in SubscribeErrors \cup {""} : SubscribeTopics(err)
    \/ Sleep
    \/ mainSubscribed
    \/ \E ev \in PollEvents : Poll(ev)
    \/ Signal

SpecConsumer == InitConsumer /\ [][NextConsumer]_vars /\ WF_vars(SubscribeStep)

\* the pipeline with every message delivered once, no infrastructure
\* failure, and a payload that is no event on build-requests or build-jobs
NextForeign ==
    \/ \E b \in BuildIds : SubmitBuild(b)
    \/ \E t \in OrchTopics : \E f \in {"none"} : ProcessBuildRequestStore(t, f)
    \/ \E f \in {"none"} : ProcessBuildRequestSendStatus(f)
    \/ \E f \in {"none"} : ProcessBuildRequestSendJob(f)
    \/ \E t \in OrchTopics : ProcessBuildStatus(t)
    \/ \E t \in OrchTopics : \E f \in {"none"} : ProcessBuildCompletion(t, f)
    \/ \E w \in Workers : \E f \in {"none"} : ProcessBuildJobStart(w, f)
    \/ \E w \in Workers : \E ok \in BOOLEAN : ProcessBuildJobMkdir(w, ok)
    \/ \E w \in Workers : \E ok \in BOOLEAN : ProcessBuildJobClone(w, ok)
    \/ \E w \in Workers : \E ok \in BOOLEAN : ProcessBuildJobCheckout(w, ok)
    \/ \E w \in Workers : \E ok \in BOOLEAN : ProcessBuildJobExecuteBuild(w, ok)
    \/ \E w \in Workers : \E ok \in BOOLEAN : createAndUploadArtifactTar(w, ok)
    \/ \E w \in Workers : \E f \in {"none"} : uploadArtifactPost(w, f)
    \/ \E w \in Workers : \E f \in {"none"} : uploadArtifactCompletion(w, f)
    \/ \E w \in Workers : \E f \in {"none"} : ProcessBuildJobCompletion(w, f)
    \/ \E w \in Workers : \E f \in {"none"} : ProcessBuildJobStatus(w, f)
    \/ \E w \in Workers : failBuildLog(w)
    \/ \E w \in Workers : \E f \in {"none"} : failBuild(w, f)
    \/ \E w \in Workers : \E f \in {"none"} : failBuildStatus(w, f)
    \/ Tick
    \/ \E t \in {"build-requests", "build-jobs"} :
          \E payload \in ForeignPayloads : PublishForeign(t, payload)
    \/ \E t \in OrchTopics : ProcessUnknown(t)
    \/ \E w \in Workers : BuildJobUnmarshalError(w)

SpecForeign == Init /\ [][NextForeign]_vars

\* the pipeline when nothing fails: every step of the Builder succeeds,
\* every Redis command and every publish succeeds, every message is
\* delivered once; the services keep running, so each of their steps that
\* stays possible is taken
ServicesHappy ==
    \/ \E t \in OrchTopics : \E f \in {"none"} : ProcessBuildRequestStore(t, f)
    \/ \E f \in {"none"} : ProcessBuildRequestSendStatus(f)
    \/ \E f \in {"none"} : ProcessBuildRequestSendJob(f)
    \/ \E t \in OrchTopics : ProcessBuildStatus(t)
    \/ \E t \in OrchTopics : \E f \in {"none"} : ProcessBuildCompletion(t, f)
    \/ \E w \in Workers : \E f \in {"none"} : ProcessBuildJobStart(w, f)
    \/ \E w \in Workers : \E ok \in {TRUE} : ProcessBuildJobMkdir(w, ok)
    \/ \E w \in Workers : \E ok \in {TRUE} : ProcessBuildJobClone(w, ok)
    \/ \E w \in Workers : \E ok \in {TRUE} : ProcessBuildJobCheckout(w, ok)
    \/ \E w \in Workers : \E ok \in {TRUE} : ProcessBuildJobExecuteBuild(w, ok)
    \/ \E w \in Workers : \E ok \in {TRUE} : createAndUploadArtifactTar(w, ok)
    \/ \E w \in Workers : \E f \in {"none"} : uploadArtifactPost(w, f)
    \/ \E w \in Workers : \E f \in {"none"} : uploadArtifactCompletion(w, f)
    \/ \E w \in Workers : \E f \in {"none"} : ProcessBuildJobCompletion(w, f)
    \/ \E w \in Workers : \E f \in {"none"} : ProcessBuildJobStatus(w, f)

NextHappy ==
    \/ \E b \in BuildIds : SubmitBuild(b)
    \/ ServicesHappy
    \/ Tick

SpecHappy == Init /\ [][NextHappy]_vars /\ WF_vars(ServicesHappy)

\* the Notification service on its own: connections come and go, progress
\* events arrive on the three topics and are broadcast
NextNotify ==
    \/ \E k \in Conns : \E c \in ClientIds : \E f \in Filters : HandleWebSocket(k, c, f)
    \/ \E k \in Conns : BreakConn(k)
    \/ \E k \in Conns : HandleWebSocketClose(k)
    \/ \E b \in EventBuildIds : \E kind \in {"status", "log", "completion"} : EmitProgress(b, kind)
    \/ \E t \in NotifTopics : NotifyConsume(t)

SpecNotify == Init /\ [][NextNotify]_vars

\* ---------------------------------------------------------- build phase
\* the phase a status string of the record stands for: BuildStatusMessage
\* uses queued, in-progress, completed, failed; BuildCompletionMessage uses
\* success, failure
Phase(status) ==
    CASE status = "queued" -> "Queued"
      [] status = "in-progress" -> "Running"
      [] status \in {"completed", "success"} -> "Succeeded"
      [] status \in {"failed", "failure"} -> "Failed"
      [] OTHER -> "Unknown"

TerminalPhases == {"Succeeded", "Failed"}

HasRecord(b) == HasBuildStatus(redis, b)
Record(b) == getBuildStatus(redis, b)

\* the Orchestrator consumes, in this step, a message of the given kind
Consumes(t, kind) ==
    /\ orchOffset'[t] = orchOffset[t] + 1
    /\ Dispatch(OrchNext(t)) = kind

\* ----------------------------------------------------------------- C1
\* C1: once the record of a build is in a terminal phase (Succeeded or
\* Failed), no step changes the record's phase.
C1_TerminalPhaseIsFinal ==
    [][\A b \in BuildIds :
          (HasRecord(b) /\ Phase(Record(b).Status) \in TerminalPhases)
          => (HasRecord(b)' /\ Phase(Record(b)'.Status) = Phase(Record(b).Status))
      ]_vars

\* ----------------------------------------------------------------- C2
\* C2: a status message processed by the Orchestrator never takes a record
\* that is Running back to Queued.
C2_RunningNeverBackToQueued ==
    [][\A b \in BuildIds :
          (/\ \E t \in OrchTopics : Consumes(t, "status")
           /\ HasRecord(b)
           /\ Phase(Record(b).Status) = "Running")
          => Phase(Record(b)'.Status) # "Queued"
      ]_vars

\* ----------------------------------------------------------------- C3
\* C3: in every reachable state the record's artifact_url is non-empty
\* exactly when its phase is Succeeded.
C3_ArtifactIffSucceeded ==
    \A b \in BuildIds :
        HasRecord(b) =>
            ((Record(b).ArtifactURL # "") <=>
             (Phase(Record(b).Status) = "Succeeded"))

\* ----------------------------------------------------------------- C4
\* C4: once a Completed event has been applied to a record (its
\* completed_at is set), a Completed event consumed from build-completions
\* for the same build leaves the record as it is.
C4_LaterCompletedIsNoOp ==
    [][\A b \in BuildIds :
          (/\ orchOffset'["build-completions"] =
                  orchOffset["build-completions"] + 1
           /\ OrchNext("build-completions").build_id = b
           /\ HasRecord(b)
           /\ Record(b).CompletedAt # <<>>)
          => Record(b)' = Record(b)
      ]_vars

\* ----------------------------------------------------------------- C5
\* C5: started_at is set by a step that processes an in-progress status
\* for a record without started_at, and once it is set no step changes or
\* clears it.
C5_StartedAtSetOnce ==
    [][\A b \in BuildIds :
          /\ (HasRecord(b) /\ Record(b).StartedAt # <<>>)
                => (HasRecord(b)' /\ Record(b)'.StartedAt = Record(b).StartedAt)
          /\ (/\ HasRecord(b)'
              /\ Record(b)'.StartedAt # <<>>
              /\ ~HasRecord(b) \/ Record(b).StartedAt = <<>>)
                => \E t \in OrchTopics :
                      /\ Consumes(t, "status")
                      /\ OrchNext(t).build_id = b
                      /\ OrchNext(t).status = "in-progress"
      ]_vars

\* ----------------------------------------------------------------- C6
\* C6: the store holds at most one build record per build id, and every
\* step that writes a build record to the store is a step of the
\* Orchestrator's message handler.
BuildRecordKeys(b) == {k \in DOMAIN redis : k \in {RecordKey(b), StatusKey(b)}}

C6_OneRecordOneWriter ==
    /\ [](\A b \in BuildIds : Cardinality(BuildRecordKeys(b)) <= 1)
    /\ [][redis' # redis => orchOffset' # orchOffset]_vars

\* ----------------------------------------------------------------- C7
\* C7: when build-jobs holds one job message for a build, however often it
\* is delivered, the artifact store holds at most one archive of the build
\* and the terminal events published about the build agree on the outcome.
JobMessages(b) ==
    {i \in DOMAIN topics["build-jobs"] : topics["build-jobs"][i].key = b}

ArtifactsOf(b) == {n \in DOMAIN artifacts : n[1] = b}

TerminalOutcomes(b) ==
    UNION {{Phase(topics[t][i].value.status) :
               i \in {j \in DOMAIN topics[t] : topics[t][j].key = b}} :
           t \in {"build-status", "build-completions"}}

C7_OneArtifactOneOutcome ==
    \A b \in BuildIds :
        Cardinality(JobMessages(b)) = 1 =>
            /\ Cardinality(ArtifactsOf(b)) <= 1
            /\ Cardinality(TerminalOutcomes(b) \cap TerminalPhases) <= 1

\* ----------------------------------------------------------------- C8
\* what the message handler does to the record with one message, and the
\* status messages it publishes to build-status while doing so
Handle(rec, value, t) ==
    CASE Dispatch(value) = "completion" ->
            LET m == UnmarshalBuildCompletionMessage(value)
            IN [rec |-> ApplyBuildCompletion(rec, m),
                out |-> <<MarshalBuildStatusMessage(CompletionStatusUpdate(m))>>]
      [] Dispatch(value) = "status" ->
            [rec |-> ApplyBuildStatus(rec, UnmarshalBuildStatusMessage(value), t),
             out |-> <<>>]
      [] OTHER -> [rec |-> rec, out |-> <<>>]

\* the records the Orchestrator can end with when it still has to consume
\* the messages S of build-status and C of build-completions, each topic
\* in its own order, the two topics in any interleaving
RECURSIVE FinalRecords(_, _, _, _)
FinalRecords(rec, S, C, t) ==
    IF S = <<>> /\ C = <<>> THEN {rec}
    ELSE (IF S = <<>> THEN {}
          ELSE LET h == Handle(rec, Head(S), t)
               IN FinalRecords(h.rec, Tail(S) \o h.out, C, t))
         \cup
         (IF C = <<>> THEN {}
          ELSE LET h == Handle(rec, Head(C), t)
               IN FinalRecords(h.rec, S \o h.out, Tail(C), t))

Values(log) == [i \in DOMAIN log |-> log[i].value]

FinalView(rec) ==
    <<Phase(rec.Status), rec.Message, rec.ArtifactURL, rec.CompletedAt>>

\* one delivery of one job has run to its end and the Orchestrator has
\* consumed none of the progress events yet
AllProgressPending(b) ==
    /\ HasRecord(b)
    /\ Cardinality(JobMessages(b)) = 1
    /\ jobOffset = 1
    /\ redelivered = 0
    /\ faults = 0
    /\ \A w \in Workers : bpc[w] = "idle"
    /\ orchPc = "idle"
    /\ orchOffset["build-status"] = 0
    /\ orchOffset["build-completions"] = 0

\* C8: for the progress events one execution of a job has published, the
\* final record (phase, status message, artifact_url, completed_at) is the
\* same for every order in which the Orchestrator consumes build-status
\* and build-completions, each topic in its own order.
C8_FinalRecordOrderIndependent ==
    \A b \in BuildIds :
        AllProgressPending(b) =>
            Cardinality({FinalView(r) :
                r \in FinalRecords(Record(b), Values(topics["build-status"]),
                         Values(topics["build-completions"]), now)}) = 1

\* ----------------------------------------------------------------- C9
QueuedStatusMsg(buildStatus) ==
    MarshalBuildStatusMessage([BuildID |-> buildStatus.ID,
        Status |-> "queued", Message |-> "Build queued for processing",
        UpdatedAt |-> buildStatus.UpdatedAt])

\* the queued status messages ProcessBuildRequest has published for b
QueuedStatuses(b) ==
    {i \in DOMAIN topics["build-status"] :
        /\ topics["build-status"][i].key = b
        /\ topics["build-status"][i].value.status = "queued"}

JobIndexes(b) ==
    {i \in DOMAIN topics["build-jobs"] : topics["build-jobs"][i].key = b}

\* a call of ProcessBuildRequest has written its record and not published
StoredStep ==
    /\ orchPc = "idle" /\ orchPc' = "sendStatus"

\* C9: a call of ProcessBuildRequest that succeeds first persists the
\* record with phase Queued, publishing nothing, then publishes exactly
\* one queued status on build-status and nothing else, and then exactly
\* one job, its request, on build-jobs and nothing else; a job goes on
\* build-jobs in no other step, and never before the record of its build
\* is persisted and its queued status is published.
C9_PersistThenStatusThenJob ==
    /\ [][/\ StoredStep =>
                /\ topics' = topics
                /\ HasBuildStatus(redis', orchLocal'.buildReq.ID)
                /\ getBuildStatus(redis', orchLocal'.buildReq.ID)
                       = orchLocal'.buildStatus
                /\ Phase(orchLocal'.buildStatus.Status) = "Queued"
          /\ (orchPc = "sendStatus" /\ orchPc' = "sendJob") =>
                /\ topics' = [topics EXCEPT !["build-status"] =
                       Append(@, [key |-> orchLocal.buildReq.ID,
                          value |-> QueuedStatusMsg(orchLocal.buildStatus)])]
                /\ redis' = redis
          /\ (orchPc = "sendJob" /\ orchResult' = "ok") =>
                /\ topics' = [topics EXCEPT !["build-jobs"] =
                       Append(@, [key |-> orchLocal.buildReq.ID,
                          value |-> MarshalBuildRequestMessage(
                                        orchLocal.buildReq)])]
                /\ redis' = redis
          /\ topics'["build-jobs"] # topics["build-jobs"] =>
                /\ orchPc = "sendJob"
                /\ HasRecord(orchLocal.buildReq.ID)
                /\ Phase(Record(orchLocal.buildReq.ID).Status) = "Queued"
                /\ Cardinality(QueuedStatuses(orchLocal.buildReq.ID))
                       > Cardinality(JobIndexes(orchLocal.buildReq.ID))
         ]_vars
    /\ [](\A b \in BuildIds :
            /\ JobIndexes(b) # {} => HasRecord(b)
            /\ Cardinality(JobIndexes(b)) <= Cardinality(QueuedStatuses(b)))

\* a call has returned success: record, queued status and job are there
C9_Witness ==
    /\ orchResult = "ok"
    /\ orchPc = "idle"
    /\ HasRecord("b1")
    /\ Cardinality(QueuedStatuses("b1")) = 1
    /\ Cardinality(JobIndexes("b1")) = 1

\* ---------------------------------------------------------------- C10
\* the step in which a call of ProcessBuildRequest fails to persist
StoreFailedStep ==
    /\ orchPc = "idle"
    /\ \E t \in OrchTopics :
          /\ orchOffset'[t] = orchOffset[t] + 1
          /\ Dispatch(OrchNext(t)) = "request"
    /\ faults' = faults + 1

\* C10: when the store of ProcessBuildRequest fails the call returns the
\* error in that step and publishes nothing, neither the queued status
\* nor the job; the publishing steps of a call are only reached with its
\* record persisted.
C10_StoreFailurePublishesNothing ==
    /\ [][StoreFailedStep =>
             /\ orchResult' = "err"
             /\ orchPc' = "idle"
             /\ topics' = topics
             /\ redis' = redis
         ]_vars
    /\ [](orchPc \in {"sendStatus", "sendJob"} =>
             /\ HasRecord(orchLocal.buildReq.ID)
             /\ Record(orchLocal.buildReq.ID).UpdatedAt
                    = orchLocal.buildStatus.UpdatedAt)

\* the first request met a failing store: error returned, nothing written,
\* nothing published
C10_Witness ==
    /\ orchResult = "err"
    /\ orchPc = "idle"
    /\ orchOffset["build-requests"] = 1
    /\ faults = 1
    /\ ~HasRecord("b1")
    /\ topics["build-status"] = <<>>
    /\ topics["build-jobs"] = <<>>

\* ---------------------------------------------------------------- C11
\* the step in which a send of ProcessBuildRequest fails, the record
\* being stored already
SendFailedStep ==
    /\ orchPc \in {"sendStatus", "sendJob"}
    /\ faults' = faults + 1

\* C11: when the record is stored and the send to build-status or to
\* build-jobs fails, the call returns the error in that step with nothing
\* published, no job of that call on build-jobs, the record in phase
\* Queued, and the message not taken up again by the Orchestrator; a
\* record without a job stays Queued, and every job on build-jobs is paid
\* for by its own delivery of a request, a failed call yielding none.
C11_DispatchFailureLeavesQueued ==
    /\ [][SendFailedStep =>
             /\ orchResult' = "err"
             /\ orchPc' = "idle"
             /\ topics' = topics
             /\ redis' = redis
             /\ orchOffset' = orchOffset
             /\ HasRecord(orchLocal.buildReq.ID)
             /\ Phase(Record(orchLocal.buildReq.ID).Status) = "Queued"
         ]_vars
    /\ [](\A b \in BuildIds :
            (HasRecord(b) /\ JobIndexes(b) = {})
                => Phase(Record(b).Status) = "Queued")
    /\ [](Len(topics["build-jobs"]) + faults
              <= Len(topics["build-requests"]) + redelivered)

\* the send to build-jobs failed: status published, no job, record Queued
C11_Witness ==
    /\ orchResult = "err"
    /\ orchPc = "idle"
    /\ faults = 1
    /\ HasRecord("b1")
    /\ Phase(Record("b1").Status) = "Queued"
    /\ Cardinality(QueuedStatuses("b1")) = 1
    /\ JobIndexes("b1") = {}

\* ---------------------------------------------------------------- C12
\* C12: when a build-requests message is delivered for a build id that has
\* a record already, handling it leaves the record as it is, and no build
\* id ever has a second job on build-jobs.
C12_RequestRedeliveryIsNoOp ==
    /\ [][\A b \in BuildIds :
            (/\ orchPc = "idle"
             /\ \E t \in OrchTopics :
                   /\ orchOffset'[t] = orchOffset[t] + 1
                   /\ Dispatch(OrchNext(t)) = "request"
                   /\ UnmarshalBuildRequestMessage(OrchNext(t)).ID = b
             /\ HasRecord(b))
            => Record(b)' = Record(b)
         ]_vars
    /\ [](\A b \in BuildIds : Cardinality(JobIndexes(b)) <= 1)

\* ---------------------------------------------------------------- C13
\* C13: every frame written to a connection that registered with a
\* non-empty buildId carries that buildId, whatever the type of the frame.
C13_FilteredSubscriberGetsOnlyItsBuild ==
    \A k \in Conns :
        (conns[k].state # "none" /\ conns[k].buildID # "")
            => \A i \in DOMAIN frames[k] :
                   frames[k][i].buildId = conns[k].buildID

\* a subscriber of b1 and a subscriber of all builds were both written the
\* frame of b1; the frame of b2 that followed went to the second only
C13_Witness ==
    \E k, j \in Conns :
        /\ conns[k].state = "open" /\ ~conns[k].broken
        /\ conns[k].buildID = "b1"
        /\ conns[k].clientID \in DOMAIN clients
        /\ clients[conns[k].clientID] = k
        /\ Len(frames[k]) = 1
        /\ Len(frames[j]) = 2
        /\ frames[j][1] = frames[k][1]
        /\ frames[j][2].buildId = "b2"

\* ---------------------------------------------------------------- C14
\* the variant of progress event a topic carries
TopicKind(t) ==
    CASE t = "build-status" -> "status"
      [] t = "build-logs" -> "log"
      [] t = "build-completions" -> "completion"

\* the Notification service takes a message from topic t in this step
NotifyConsumes(t) == notifOffset'[t] = notifOffset[t] + 1

\* C14: when the Notification service consumes a progress event from
\* build-status, build-logs or build-completions, every registered
\* subscriber with a working connection whose filter is empty or the
\* event's build id is written one frame for it, with the type of the
\* event's variant and the event's build id.
C14_EveryEventPushed ==
    [][\A t \in NotifTopics :
          NotifyConsumes(t) =>
              LET msg == topics[t][notifOffset[t] + 1]
              IN \A k \in Recipients(msg.key) :
                    ~conns[k].broken =>
                        /\ Len(frames'[k]) = Len(frames[k]) + 1
                        /\ frames'[k][Len(frames'[k])].type = TopicKind(t)
                        /\ frames'[k][Len(frames'[k])].buildId = msg.key
      ]_vars

NewOn(t) ==
    IF Len(topics'[t]) > Len(topics[t])
    THEN {topics'[t][Len(topics'[t])]}
    ELSE {}

\* the messages on topic t for build b with the given status
StatusesOn(t, b, status) ==
    {i \in DOMAIN topics[t] :
        /\ topics[t][i].key = b
        /\ topics[t][i].value.status = status}

\* a success completion that carries an artifact reference
SucceededWithArtifact(m) ==
    /\ m.value.status = "success"
    /\ UnmarshalBuildCompletionMessage(m.value).ArtifactURL # ""

\* C16: a call of ProcessBuildJob publishes the in-progress status, and
\* nothing else, in its first step; every completion and every later
\* status of the Builder comes from a call that has published it; a
\* success completion carries a non-empty artifact URL, and the completed
\* status is published only after the call's success completion.
C16_RunningFirstCompletionBeforeSucceeded ==
    /\ [][/\ \A w \in Workers :
                (bpc[w] = "idle" /\ bpc'[w] # "idle") =>
                    /\ NewOn("build-status") =
                           {[key |-> bjob'[w].ID,
                             value |-> MarshalBuildStatusMessage(
                                 [BuildID |-> bjob'[w].ID,
                                  Status |-> "in-progress",
                                  Message |-> "Build started",
                                  UpdatedAt |-> now])]}
                    /\ topics'["build-completions"]
                           = topics["build-completions"]
          /\ \A m \in NewOn("build-completions") :
                /\ \E w \in Workers : bpc[w] # "idle" /\ bjob[w].ID = m.key
                /\ m.value.status = "success" => SucceededWithArtifact(m)
          /\ \A m \in NewOn("build-status") :
                /\ m.value.status \in {"completed", "failed"} =>
                       \E w \in Workers :
                           bpc[w] # "idle" /\ bjob[w].ID = m.key
                /\ m.value.status = "completed" =>
                       /\ \E w \in Workers :
                              /\ bpc[w] = "completeStatus"
                              /\ bjob[w].ID = m.key
                       /\ LET done == topics["build-completions"]
                          IN /\ done # <<>>
                             /\ done[Len(done)].key = m.key
                             /\ SucceededWithArtifact(done[Len(done)])
         ]_vars
    /\ [](\A w \in Workers :
            /\ bpc[w] # "idle" =>
                   StatusesOn("build-status", bjob[w].ID, "in-progress") # {}
            /\ bpc[w] = "completeStatus" =>
                   \E i \in StatusesOn("build-completions", bjob[w].ID,
                                        "success") :
                       SucceededWithArtifact(topics["build-completions"][i]))

\* a call in which every step succeeded has returned: in-progress, the
\* success completions with the artifact URL and completed are published
C16_Witness ==
    /\ faults = 0
    /\ bpc["w1"] = "idle" /\ bResult["w1"] = "ok"
    /\ StatusesOn("build-status", "b1", "in-progress") # {}
    /\ StatusesOn("build-status", "b1", "completed") # {}
    /\ StatusesOn("build-status", "b1", "failed") = {}
    /\ \A i \in DOMAIN topics["build-completions"] :
           SucceededWithArtifact(topics["build-completions"][i])
    /\ Len(topics["build-completions"]) >= 2

\* ---------------------------------------------------------------- C17
\* the positions of ProcessBuildJob inside failBuild
FailPcs == {"failLog", "failBuild", "failStatus"}

\* the log line failBuild publishes for the error message of the call
FailureLog(w) ==
    [key |-> bjob[w].ID,
     value |-> MarshalBuildLogMessage(
         [BuildID |-> bjob[w].ID,
          LogEntry |-> "Build failed: " \o berr[w],
          Timestamp |-> now])]

LastOn(t) == topics[t][Len(topics[t])]

BuildPcs == {"clone", "checkout", "executeBuild", "tar", "upload",
             "uploaded", "complete", "completeStatus"}

C19_BuildScriptBypassesDetection ==
    /\ [](~IsNotExist(buildFiles, "build.sh") =>
            /\ \A i \in DOMAIN execCalls : execCalls[i] = "runBuildScript"
            /\ execPc \in {"executeBuild", "runBuildScript", "done"}
            /\ projectType = ""
            /\ packageManager = ""
            /\ \A i \in DOMAIN execCmds :
                   execCmds[i] = <<"/bin/sh", "build.sh">>
            /\ execPc = "done" =>
                   /\ execCalls = <<"runBuildScript">>
                   /\ execCmds = << <<"/bin/sh", "build.sh">> >>
                   /\ execErr \in {"", "build script failed"})
    /\ [][(execPc = "executeBuild" /\ ~IsNotExist(buildFiles, "build.sh"))
             => execPc' = "runBuildScript"]_vars

\* a repository with build.sh, package.json and go.mod was built by its
\* script
C19_Witness ==
    /\ {"build.sh", "package.json", "go.mod"} \subseteq buildFiles
    /\ execPc = "done"
    /\ execErr = ""
    /\ execCmds = << <<"/bin/sh", "build.sh">> >>

\* ---------------------------------------------------------------- C20
\* the order of the statements of ProcessBuildJob and failBuild
PcRank(pc) ==
    CASE pc = "idle" -> 0
      [] pc = "mkdir" -> 1
      [] pc = "clone" -> 2
      [] pc = "checkout" -> 3
      [] pc = "executeBuild" -> 4
      [] pc = "tar" -> 5
      [] pc = "upload" -> 6
      [] pc = "uploaded" -> 7
      [] pc = "complete" -> 8
      [] pc = "completeStatus" -> 9
      [] pc = "failLog" -> 10
      [] pc = "failBuild" -> 11
      [] pc = "failStatus" -> 12

Attempt == subCalls' = subCalls + 1

\* C21: Subscribe returns: every call of SubscribeTopics that succeeds is
\* followed at once by the return of nil, every failed call but the 15th
\* by one sleep and the next call, and the 15th failed call at once by
\* the return of its error; so Subscribe makes at most 15 calls, has
\* slept once less than it has called when it returns, returns the
\* outcome of its last call, and returns in every run.
C21_SubscribeTerminates ==
    /\ [][/\ (Attempt /\ subErr' = "") => subPc' = "return"
          /\ (Attempt /\ subErr' # "") =>
                IF subCalls' < maxRetries
                THEN subPc' = "Sleep"
                ELSE subPc' = "return"
          /\ subSleeps' # subSleeps =>
                /\ subPc = "Sleep" /\ subPc' = "SubscribeTopics"
                /\ subSleeps' = subSleeps + 1
          /\ subPc = "return" => UNCHANGED <<subPc, subErr, subCalls,
                                             subSleeps>>
          /\ (subErr' # subErr) => Attempt
         ]_vars
    /\ [](/\ subCalls <= maxRetries
          /\ subPc = "return" =>
                /\ subCalls >= 1
                /\ subSleeps = subCalls - 1
                /\ subErr # "" => subCalls = maxRetries
          /\ mainPc = "ConsumeMessages" => subErr = "")
    /\ <>(subPc = "return")

\* Subscribe has returned the error of its 15th attempt after 14 sleeps
C21_Witness ==
    /\ subPc = "return"
    /\ subErr \in SubscribeErrors
    /\ subCalls = maxRetries
    /\ subSleeps = maxRetries - 1
    /\ mainPc = "Subscribe"

\* ---------------------------------------------------------------- C23
\* C23: a service whose Subscribe returned an error exits, and a service
\* whose receive loop ends on ErrAllBrokersDown exits with it, so that no
\* service is left running with a stopped receive loop after a failure of
\* the message bus.
C23_BusFailureEndsProcess ==
    [][/\ (mainPc = "Subscribe" /\ mainPc' # "Subscribe" /\ subErr # "")
             => mainPc' = "exit"
       /\ (polled' = polled + 1 /\ run /\ ~run') => mainPc' = "exit"
      ]_vars

\* ---------------------------------------------------------------- C22
\* a payload that is no event of the pipeline: it does not decode, or it
\* decodes to an object without a build id
Malformed(value) ==
    \/ ~IsJSON(value)
    \/ /\ UnmarshalBuildRequestMessage(value).ID = ""
       /\ UnmarshalBuildStatusMessage(value).BuildID = ""

\* C22: when the Orchestrator or the Builder takes a malformed payload
\* from a topic, the step changes nothing in Redis, publishes nothing and
\* starts no build, and the consumer stands ready for the next message.
C22_MalformedPayloadDropped ==
    [][/\ \A t \in OrchTopics :
            (orchOffset'[t] = orchOffset[t] + 1 /\ Malformed(OrchNext(t)))
                => /\ redis' = redis
                   /\ topics' = topics
                   /\ orchPc' = "idle"
       /\ (jobOffset' = jobOffset + 1 /\ Malformed(BuilderNext))
             => /\ redis' = redis
                /\ topics' = topics
                /\ \A w \in Workers : bpc'[w] = "idle"
      ]_vars

\* ---------------------------------------------------------------- C24
\* C24: whenever the Orchestrator's record of a build is in phase Failed,
\* its message is not empty, in whatever order the Builder's failure
\* completion and failed status are consumed.
C24_FailedRecordHasMessage ==
    \A b \in BuildIds :
        (HasRecord(b) /\ Phase(Record(b).Status) = "Failed")
            => Record(b).Message # ""

\* ---------------------------------------------------------------- C25
Submitted(b) ==
    \E i \in DOMAIN topics["build-requests"] :
        topics["build-requests"][i].key = b

InPhase(b, phase) == HasRecord(b) /\ Phase(Record(b).Status) = phase

SucceededWithArtifactURL(b) ==
    InPhase(b, "Succeeded") /\ Record(b).ArtifactURL # ""

\* C25: when nothing fails and the services keep running, a submitted
\* build gets its record in phase Queued, a record in phase Queued comes
\* to phase Running, a record in phase Running comes to phase Succeeded
\* with a non-empty artifact URL, and in the end the record stays
\* Succeeded with a non-empty artifact URL.
C25_HappyPathReachesSucceeded ==
    \A b \in BuildIds :
        /\ (Submitted(b) /\ ~HasRecord(b)) ~> InPhase(b, "Queued")
        /\ InPhase(b, "Queued") ~> InPhase(b, "Running")
        /\ InPhase(b, "Running") ~> SucceededWithArtifactURL(b)
        /\ Submitted(b) ~> [] SucceededWithArtifactURL(b)

\* every message of the build is consumed and the record is Succeeded
\* with the artifact URL
C25_Witness ==
    /\ SucceededWithArtifactURL("b1")
    /\ bResult["w1"] = "ok" /\ bpc["w1"] = "idle"
    /\ \A t \in OrchTopics : orchOffset[t] = Len(topics[t])
    /\ Len(topics["build-completions"]) = 2

\* ---------------------------------------------------------------- C26
\* the Builder has published the failed status of a failed clone for b
CloneFailed(b) ==
    \E i \in StatusesOn("build-status", b, "failed") :
        topics["build-status"][i].value.message = "Failed to clone repository"

\* nothing is left to do: the Builder waits for a job, the Orchestrator
\* has consumed every message of its topics
Quiescent ==
    /\ orchPc = "idle"
    /\ \A t \in OrchTopics : orchOffset[t] = Len(topics[t])
    /\ \A w \in Workers : bpc[w] = "idle"
    /\ jobOffset = Len(topics["build-jobs"])

\* C26: once the clone of a build has failed, nothing else has failed and
\* every message is consumed, the record of the build is in phase Failed,
\* its message is the clone failure, and it has no artifact URL.
C26_CloneFailureReachesFailed ==
    \A b \in BuildIds :
        (CloneFailed(b) /\ Quiescent /\ faults = 0) =>
            /\ InPhase(b, "Failed")
            /\ Record(b).Message = "Failed to clone repository"
            /\ Record(b).ArtifactURL = ""

\* ------------------------------------------------------------ lookups
\* the pipeline with every message delivered once, and the Orchestrator's
\* GET /api/builds/{buildId} asked at any moment
NextLookup ==
    \/ NextOnce
    \/ \E id \in LookupIds : \E f \in {"none", "get"} : GetBuildJob(id, f)

SpecLookup == Init /\ [][NextLookup]_vars

\* C27: a lookup of an id that has a stored record answers 200 with that
\* record, a lookup of an id that has none answers 404, and no lookup
\* creates or changes a record
C27_LookupReturnsRecordOr404 ==
    [][\A id \in LookupIds : \A f \in {"none", "get"} :
          GetBuildJob(id, f) =>
              /\ redis' = redis
              /\ zset' = zset
              /\ IF HasBuildStatus(redis, id)
                 THEN getResp' = [code |-> 200, body |-> redis[RecordKey(id)]]
                 ELSE getResp'.code = 404]_vars

\* ------------------------------------------------------------ gateway
\* the gateway answering every kind of submission, and the Orchestrator's
\* request handler behind build-requests
NextGateway ==
    \/ \E authHeader \in AuthHeaders : \E body \in Bodies :
          \E b \in BuildIds : \E f \in {"none", "send"} :
             PostBuilds(authHeader, body, b, f)
    \/ NextIngest

SpecGateway == Init /\ [][NextGateway]_vars

\* a request without a valid bearer credential, and a malformed submission
Unauthenticated(authHeader) ==
    ~(/\ Len(authHeader) = 2
      /\ authHeader[1] = "Bearer"
      /\ ValidateToken(authHeader[2]))
MalformedSubmission(body) ==
    ~IsJSON(body) \/ Field(body, "repository_url", "") = ""

\* C28: a submission that is malformed or carries no valid bearer
\* credential is answered with 400 or 401 by the request itself, and
\* nothing is published for it
C28_InvalidSubmissionRejected ==
    [][\A authHeader \in AuthHeaders : \A body \in Bodies :
          \A b \in BuildIds : \A f \in {"none", "send"} :
             (/\ PostBuilds(authHeader, body, b, f)
              /\ Unauthenticated(authHeader) \/ MalformedSubmission(body))
             => /\ postResp'.code =
                      IF Unauthenticated(authHeader) THEN 401 ELSE 400
                /\ topics' = topics]_vars

C28_Witness ==
    /\ postResp.code \in {400, 401}
    /\ Len(topics["build-requests"]) = 1
    /\ topics["build-requests"][1].value.repository_url # ""

\* ---------------------------------------------------------------- C29
\* a step of the running call has failed: the error handed to failBuild
StepFailed(w) == berr[w] # ""

\* C29: the step in which a step of ProcessBuildJob fails creates no
\* archive and stores no artifact, and it leaves the call in failBuild;
\* from there to its return the call runs no clone, checkout, build,
\* packaging or upload, creates no archive, stores no artifact and
\* publishes no success completion.
C29_StepFailureAbortsLaterSteps ==
    [][\A w \in Workers :
          (StepFailed(w) \/ StepFailed(w)') =>
              /\ StepFailed(w)' => bpc'[w] \in FailPcs
              /\ StepFailed(w) => bpc[w] \in FailPcs
              /\ bpc'[w] \notin BuildPcs
              /\ uploads' = uploads
              /\ artifacts' = artifacts
              /\ \A m \in NewOn("build-completions") :
                     m.value.status = "failure"]_vars

C29_Witness ==
    /\ bpc["w1"] = "idle" /\ bResult["w1"] = "ok"
    /\ \E i \in StatusesOn("build-status", "b1", "failed") :
           topics["build-status"][i].value.message = "failed to build project"
    /\ redelivered = 0
    /\ uploads = 0
    /\ artifacts = <<>>
    /\ StatusesOn("build-completions", "b1", "success") = {}

\* ---------------------------------------------------------------- C30
\* the function executeBuild has called so far
Called(fn) == \E i \in DOMAIN execCalls : execCalls[i] = fn

\* the recipe the repository's files ask for when there is no build.sh
Recipe ==
    IF "package.json" \in buildFiles THEN "buildNodeProject"
    ELSE IF "go.mod" \in buildFiles THEN "buildGoProject"
    ELSE "none"

\* C30: without build.sh the build script is never run; the only recipe
\* executeBuild enters is the Node recipe when package.json is present and
\* the Go recipe when it is absent and go.mod is present, and it has
\* entered that recipe and run a command when it returns; with neither
\* file no command is ever run and executeBuild returns the
\* unknown-project-type error.
C30_RecipeByMarkerFile ==
    "build.sh" \notin buildFiles =>
        /\ ~Called("runBuildScript")
        /\ \A fn \in {"buildNodeProject", "buildGoProject"} :
               Called(fn) => fn = Recipe
        /\ Recipe = "none" => execCmds = <<>>
        /\ execPc = "done" =>
               IF Recipe = "none"
               THEN execErr =
                       "unknown project type: unknown, no build script found"
               ELSE /\ Called(Recipe)
                    /\ execCmds # <<>>
                    /\ execErr \in {"", "failed to install dependencies",
                                     "failed to build project"}
                    /\ \A i \in DOMAIN execCmds :
                           (execCmds[i][1] = "go") = (Recipe = "buildGoProject")

C30_Witness ==
    /\ buildFiles = {"package.json", "go.mod"}
    /\ execPc = "done"
    /\ execErr = ""
    /\ Called("buildNodeProject")
    /\ execCmds = << <<"npm", "install">>, <<"npm", "run", "build">> >>

\* ---------------------------------------------------------------- C31
\* the package manager the lock files of the repository ask for
ManagerByLockFile ==
    IF "pnpm-lock.yaml" \in buildFiles THEN "pnpm"
    ELSE IF "package-lock.json" \in buildFiles THEN "npm"
    ELSE IF "yarn.lock" \in buildFiles THEN "yarn"
    ELSE "npm"

\* C31: in the Node recipe the package manager is pnpm, npm or yarn by the
\* first lock file present in that order and npm without a lock file; the
\* commands run are its install and then its run build, nothing else;
\* run build is run only as the second command, in a step that starts
\* after an install that returned no error, and a failed install ends the
\* recipe with the install as its only command.
C31_NodePackageManagerAndOrder ==
    /\ [](Called("buildNodeProject") =>
            /\ packageManager # "" => packageManager = ManagerByLockFile
            /\ Len(execCmds) <= 2
            /\ Len(execCmds) >= 1 =>
                   execCmds[1] = <<ManagerByLockFile, "install">>
            /\ Len(execCmds) = 2 =>
                   execCmds[2] = <<ManagerByLockFile, "run", "build">>
            /\ execErr = "failed to install dependencies" =>
                   Len(execCmds) = 1
            /\ (execPc = "done" /\ execErr = "") => Len(execCmds) = 2)
    /\ [][(Called("buildNodeProject") /\ Len(execCmds') = 2
             /\ Len(execCmds) < 2)
            => /\ Len(execCmds) = 1
               /\ execPc = "run build"
               /\ execErr = ""]_vars

C31_Witness ==
    /\ buildFiles = {"package.json", "pnpm-lock.yaml", "package-lock.json",
                     "yarn.lock"}
    /\ execPc = "done"
    /\ execErr = ""
    /\ execCmds = << <<"pnpm", "install">>, <<"pnpm", "run", "build">> >>

\* ---------------------------------------------------------------- C32
\* C32: while a call of ProcessBuildJob has not returned, the worker takes
\* no message from build-jobs and the job of the call stays the same; a
\* message is taken only by a worker that runs no call.
C32_OneJobAtATime ==
    [][\A w \in Workers :
          /\ bpc[w] # "idle" =>
                 /\ jobOffset' <= jobOffset
                 /\ bpc'[w] # "idle" => bjob'[w] = bjob[w]
          /\ jobOffset' > jobOffset =>
                 /\ bpc[w] = "idle"
                 /\ jobOffset' = jobOffset + 1]_vars

\* a message waits on build-jobs while the call for the one before runs
C32_Witness ==
    /\ bpc["w1"] = "executeBuild"
    /\ bjob["w1"].ID = "b1"
    /\ BuilderHasNext

\* ---------------------------------------------------------------- C33
\* C33: a call of SubscribeTopics that fails with an error other than the
\* unknown-topic error is followed at once by the return of that error,
\* with no sleep and no further call.
C33_RetryOnlyUnknownTopic ==
    [][(Attempt /\ subErr' \notin {"", "ErrUnknownTopicOrPart"})
          => subPc' = "return"]_vars

\* ---------------------------------------------------------------- C34
\* the build id a payload on topic t carries
PayloadBuildId(t, value) ==
    IF t \in {"build-requests", "build-jobs"} THEN Field(value, "id", "")
    ELSE Field(value, "build_id", "")

\* C34: every message on build-requests, build-jobs, build-status,
\* build-logs and build-completions has the build id of its payload as
\* its partition key, and that id is the id of a submitted build.
C34_KeyIsBuildId ==
    \A t \in TopicNames : \A i \in DOMAIN topics[t] :
        /\ topics[t][i].key = PayloadBuildId(t, topics[t][i].value)
        /\ topics[t][i].key \in BuildIds

\* a failed build has put a message on each of the five topics
C34_Witness ==
    /\ \A t \in TopicNames : topics[t] # <<>>
    /\ StatusesOn("build-status", "b1", "failed") # {}

\* ---------------------------------------------------------------- C35
\* the pipeline with every message delivered once and the Orchestrator's
\* two progress handlers taken statement by statement
NextSerial ==
    \/ \E b \in BuildIds : SubmitBuild(b)
    \/ \E t \in OrchTopics : \E f \in {"none", "store"} : ProcessBuildRequestStore(t, f)
    \/ \E f \in {"none", "send"} : ProcessBuildRequestSendStatus(f)
    \/ \E f \in {"none", "send"} : ProcessBuildRequestSendJob(f)
    \/ \E t \in OrchTopics : ProcessProgressGet(t)
    \/ \E f \in {"none", "send"} : ProcessProgressStore(f)
    \/ \E w \in Workers : \E f \in {"none", "send"} : ProcessBuildJobStart(w, f)
    \/ \E w \in Workers : \E ok \in BOOLEAN : ProcessBuildJobMkdir(w, ok)
    \/ \E w \in Workers : \E ok \in BOOLEAN : ProcessBuildJobClone(w, ok)
    \/ \E w \in Workers : \E ok \in BOOLEAN : ProcessBuildJobCheckout(w, ok)
    \/ \E w \in Workers : \E ok \in BOOLEAN : ProcessBuildJobExecuteBuild(w, ok)
    \/ \E w \in Workers : \E ok \in BOOLEAN : createAndUploadArtifactTar(w, ok)
    \/ \E w \in Workers : \E f \in {"none", "post"} : uploadArtifactPost(w, f)
    \/ \E w \in Workers : \E f \in {"none", "send"} : uploadArtifactCompletion(w, f)
    \/ \E w \in Workers : \E f \in {"none", "send"} : ProcessBuildJobCompletion(w, f)
    \/ \E w \in Workers : \E f \in {"none", "send"} : ProcessBuildJobStatus(w, f)
    \/ \E w \in Workers : failBuildLog(w)
    \/ \E w \in Workers : \E f \in {"none", "send"} : failBuild(w, f)
    \/ \E w \in Workers : \E f \in {"none", "send"} : failBuildStatus(w, f)
    \/ Tick

SpecSerial == Init /\ [][NextSerial]_vars

\* the Orchestrator stands between the read and the store of a record
Updating == orchPc = "store"
UpdatedKey == RecordKey(orchLocal.msg.BuildID)

\* another progress event of the build under update waits to be consumed
BurstPending ==
    \E t \in OrchTopics :
        /\ OrchHasNext(t)
        /\ topics[t][orchOffset[t] + 1].key = orchLocal.msg.BuildID

\* C35: between the read and the store of a record by the handling of one
\* event the Orchestrator takes no other event and nothing writes the
\* record, so the copy the handler updates is the stored record when it
\* is stored again, and the store writes the stored record with exactly
\* the fields of this event changed.
C35_RecordUpdateSerialized ==
    /\ [](Updating =>
            /\ UpdatedKey \in DOMAIN redis
            /\ redis[UpdatedKey] = MarshalBuildStatus(orchLocal.buildStatus))
    /\ [][Updating =>
            /\ orchOffset' = orchOffset
            /\ Updating' => redis'[UpdatedKey] = redis[UpdatedKey]
            /\ ~Updating' =>
                  redis'[UpdatedKey] = MarshalBuildStatus(
                      IF orchLocal.kind = "completion"
                      THEN ApplyBuildCompletion(
                               UnmarshalBuildStatus(redis[UpdatedKey]),
                               orchLocal.msg)
                      ELSE ApplyBuildStatus(
                               UnmarshalBuildStatus(redis[UpdatedKey]),
                               orchLocal.msg, now))]_vars

C35_Witness ==
    /\ Updating
    /\ orchLocal.kind = "status"
    /\ orchLocal.msg.Status = "in-progress"
    /\ BurstPending
    /\ Len(topics["build-completions"]) >= 1

\* ---------------------------------------------------------------- C36
\* the pipeline with every message delivered once, and the
\* status-dashboard-api consuming the three event topics
NextLogs ==
    \/ NextOnce
    \/ \E t \in DashTopics : ProcessBuildLog(t)

SpecLogs == Init /\ [][NextLogs]_vars

\* the log lines the Builder has emitted for build b, in emission order
EmittedLines(b) ==
    LET own == SelectSeq(topics["build-logs"], LAMBDA m : m.key = b)
    IN [i \in DOMAIN own |-> own[i].value.log_entry]

\* C36: the stored log list of a build holds the lines the Builder has
\* emitted for it, each once and in emission order, and nothing else.
C36_LogListIsEmittedLines ==
    \A b \in BuildIds : LRange(logs, b) = EmittedLines(b)

\* ---------------------------------------------------------------- C37
\* the Orchestrator takes the next message of build-completions
TakesCompletion ==
    orchOffset'["build-completions"] = orchOffset["build-completions"] + 1

\* C37: a message the Orchestrator takes from build-completions is
\* classified as a completion, and when the build has a record the step
\* sets completed_at and duration of the record from the message.
C37_CompletionHandledAsCompletion ==
    [][TakesCompletion =>
          LET value == OrchNext("build-completions")
              completionMsg == UnmarshalBuildCompletionMessage(value)
          IN /\ Dispatch(value) = "completion"
             /\ HasBuildStatus(redis, completionMsg.BuildID) =>
                   LET stored == getBuildStatus(redis', completionMsg.BuildID)
                   IN /\ stored.CompletedAt = <<completionMsg.CompletedAt>>
                      /\ stored.Duration = completionMsg.Duration]_vars

\* ---------------------------------------------------------------- C38
\* the completions published for build b
CompletionsOf(b) ==
    SelectSeq(topics["build-completions"], LAMBDA m : m.key = b)

\* C38: with every job delivered once, so that a build has one call of
\* ProcessBuildJob, at most one completion is published for a build.
C38_AtMostOneCompletion ==
    \A b \in BuildIds : Len(CompletionsOf(b)) <= 1

\* ------------------------------------------------- the fan-out registry
\* the clientId query parameters a websocket request can come with: one of
\* the client ids, or none
RequestClientIds == ClientIds \cup {""}

\* the Notification service with requests that carry no clientId as well
NextRegistry ==
    \/ \E k \in Conns : \E c \in RequestClientIds : \E f \in Filters :
          HandleWebSocket(k, c, f)
    \/ \E k \in Conns : BreakConn(k)
    \/ \E k \in Conns : HandleWebSocketClose(k)
    \/ \E b \in EventBuildIds : \E kind \in {"status", "log", "completion"} :
          EmitProgress(b, kind)
    \/ \E t \in NotifTopics : NotifyConsume(t)

SpecRegistry == Init /\ [][NextRegistry]_vars

\* the connection is the one ns.clients holds under some clientId
InRegistry(k) == \E c \in DOMAIN clients : clients[c] = k

\* the handler of connection j returns in this step
Closes(j) == conns[j].state = "open" /\ conns'[j].state = "closed"

\* a request without clientId has been closed and is not in the registry
NoClientIdUnregistered ==
    /\ "" \notin DOMAIN clients
    /\ \A k \in Conns :
          (conns[k].state # "none" /\ conns[k].clientID = "")
              => (conns[k].state = "closed" /\ ~InRegistry(k))

\* C39: a request without clientId is closed without being registered, and
\* a registered connection that stays open is still in the registry after
\* the handler of another connection has returned.
C39_RegisteredUntilOwnClose ==
    /\ []NoClientIdUnregistered
    /\ [][\A k \in Conns : \A j \in Conns \ {k} :
            (InRegistry(k) /\ Closes(j) /\ conns'[k].state = "open")
                => InRegistry(k)']_vars

\* ------------------------------------------------ Storage: GetArtifact
\* the build ids GET /artifacts/{buildId} is called with: the id of a
\* build, a proper prefix of it, and an id nothing is uploaded for
GetIds == BuildIds \cup {"b", "b2"}

\* time.Now().Format("20060102-150405") for the second t of a run that
\* starts at midnight
FormatTimestamp(t) == "20250101-00000" \o ToString(t)

\* the name of the file UploadArtifact writes: <buildId>-<timestamp>.tar.gz
FileName(n) == n[1] \o "-" \o FormatTimestamp(n[2]) \o ".tar.gz"

\* the characters of the file names in the order of their bytes
Alphabet == "-.0123456789abcdefghijklmnopqrstuvwxyz"

Rank(c) == CHOOSE i \in 1..Len(Alphabet) : SubSeq(Alphabet, i, i) = c

\* the order filepath.Glob returns the names in: sorted as strings
RECURSIVE StringLess(_, _)
StringLess(a, b) ==
    IF a = "" THEN b # ""
    ELSE IF b = "" THEN FALSE
    ELSE IF SubSeq(a, 1, 1) = SubSeq(b, 1, 1)
         THEN StringLess(SubSeq(a, 2, Len(a)), SubSeq(b, 2, Len(b)))
         ELSE Rank(SubSeq(a, 1, 1)) < Rank(SubSeq(b, 1, 1))

\* a name matches the pattern <buildID>*.tar.gz: it starts with buildID
\* and ends in .tar.gz behind it
Match(buildID, name) ==
    /\ Len(buildID) + Len(".tar.gz") <= Len(name)
    /\ SubSeq(name, 1, Len(buildID)) = buildID
    /\ SubSeq(name, Len(name) - Len(".tar.gz") + 1, Len(name)) = ".tar.gz"

\* filepath.Glob over artifactsDir
Glob(files, buildID) ==
    {n \in DOMAIN files : Match(buildID, FileName(n))}

\* matches[0]
FirstMatch(matches) ==
    CHOOSE n \in matches :
        \A o \in matches \ {n} : StringLess(FileName(n), FileName(o))

\* GetArtifact: 400 without a build id, 404 without a match, else the
\* file of the first match
GetArtifact(buildID) ==
    /\ storeResp' =
          [buildId |-> buildID,
           response |->
              IF buildID = ""
              THEN HTTPError(400, "Build ID is required")
              ELSE IF Glob(artifacts, buildID) = {}
              THEN HTTPError(404, "Artifact not found")
              ELSE LET artifactPath == FirstMatch(Glob(artifacts, buildID))
                   IN [code |-> 200,
                       body |-> [filename |-> FileName(artifactPath),
                                 content |-> artifacts[artifactPath]]]]
    /\ UNCHANGED <<pipelineVars, notifVars, execVars, consumerVars, getResp,
                   postResp, dashVars>>

\* the Builder with what feeds it, and clients fetching artifacts from the
\* Storage service
NextStore ==
    \/ NextBuild
    \/ \E id \in GetIds : GetArtifact(id)

SpecStore == Init /\ [][NextStore]_vars

\* the archives uploaded for exactly this build id
UploadedFor(buildID) == {n \in DOMAIN artifacts : n[1] = buildID}

\* the archive uploaded last for the build id: archives are numbered in
\* the order the Builder produces them
MostRecent(buildID) ==
    CHOOSE c \in {artifacts[n] : n \in UploadedFor(buildID)} :
        \A n \in UploadedFor(buildID) : artifacts[n] <= c

\* C40: the answer to GET /artifacts/<id> is 404 when nothing was uploaded
\* for that id, and otherwise the archive uploaded last for exactly that id.
C40_GetReturnsLatestOfThatId ==
    [][storeResp' # storeResp =>
        LET buildID == storeResp'.buildId
            response == storeResp'.response
        IN IF UploadedFor(buildID) = {}
           THEN response.code = 404
           ELSE /\ response.code = 200
                /\ response.body.content = MostRecent(buildID)]_vars

====
